---- MODULE Spec2Model ----
(***************************************************************************)
(* Model of the request execution pipeline of HttpService                  *)
(* (nestjs-undici, src/http.service.ts): the facade, the request executor, *)
(* the interceptor chains, the request builder and the response decoder.   *)
(*                                                                         *)
(* Every action is one continuation of the asynchronous executor: it       *)
(* starts where an awaited operation (a hook, the transport's request(),   *)
(* a body parser) settles and runs, synchronously, to the next await.      *)
(* The awaited operations themselves are the environment: a hook returns   *)
(* any value or throws, the transport returns any response or rejects.     *)
(***************************************************************************)
EXTENDS Integers, Sequences, FiniteSets, TLC

VARIABLES
  options,               \* this.options: the client's configuration
  agent,                 \* this.agent
  requestInterceptors,   \* this.requestInterceptors
  responseInterceptors,  \* this.responseInterceptors
  pool,                  \* the state of the agent object and of the pool
                         \* operations (getPoolStats, close) made on the client
  container,             \* the dynamic module the client was injected from
                         \* (none for a client constructed directly)
  calls                  \* per call: the executor's position and history

vars ==
  <<options, agent, requestInterceptors, responseInterceptors, pool, container, calls>>
\* the client, the agent it holds and the module it came from
service ==
  <<options, agent, requestInterceptors, responseInterceptors, pool, container>>

(***************************************************************************)
(* Bounds of the model.                                                    *)
(***************************************************************************)
\* number of request interceptors configured on the client
NReq == 2
\* number of response interceptors configured on the client
NResp == 2

\* largest value of the agent's stats
MaxStats == 1
\* number of getPoolStats() invocations
MaxReads == 1
\* number of close() invocations
MaxSubs == 2
MaxClose == 2

\* The calls of the model.
CallIds == {"c1", "c2"}

(***************************************************************************)
(* Optional values (a field that may be undefined) are sequences of        *)
(* length at most one; strings that the code inspects (URLs, query         *)
(* strings, JSON text) are sequences of one-character strings.             *)
(***************************************************************************)
None == <<>>
Some(v) == <<v>>
IsSome(o) == Len(o) > 0
Get(o) == o[1]

StartsWith(s, p) == Len(s) >= Len(p) /\ SubSeq(s, 1, Len(p)) = p
Includes(s, ch) == \E j \in 1..Len(s) : s[j] = ch

RECURSIVE Flatten(_)
Flatten(ss) == IF ss = <<>> THEN <<>> ELSE Head(ss) \o Flatten(Tail(ss))

RECURSIVE Join(_, _)
Join(ss, sep) ==
  IF ss = <<>> THEN <<>>
  ELSE IF Len(ss) = 1 THEN Head(ss)
  ELSE Head(ss) \o sep \o Join(Tail(ss), sep)

(***************************************************************************)
(* HTTP_DEFAULTS (src/constants/http-module.constant.ts is not among the   *)
(* sources; the values are the ones the specification and README state).   *)
(***************************************************************************)
DEFAULT_METHOD == "GET"
DEFAULT_RESPONSE_TYPE == "json"
DEFAULT_CONTENT_TYPE == "application/json"
OK_STATUS == 200
OK_STATUS_TEXT == "OK"
ERROR_STATUS_TEXT == "Error"

(***************************************************************************)
(* Payloads.  A payload is [t, cls, v]: t is what typeof yields, cls the   *)
(* class of an object, v the own properties of a plain object as a         *)
(* sequence of <<key, value>>, a value being [t, n].                       *)
(***************************************************************************)
\* one decimal digit as a character
Digit(n) == CASE n = 0 -> "0" [] n = 1 -> "1" [] n = 2 -> "2" [] n = 3 -> "3"
              [] n = 4 -> "4" [] n = 5 -> "5" [] n = 6 -> "6" [] n = 7 -> "7"
              [] n = 8 -> "8" [] OTHER -> "9"

DataUndefined == [t |-> "undefined", cls |-> "", v |-> <<>>]
NumVal(n) == [t |-> "number", n |-> n]
BigIntVal(n) == [t |-> "bigint", n |-> n]
PlainObject(props) == [t |-> "object", cls |-> "Object", v |-> props]
\* a Buffer: its own properties are the indices of its bytes
BufferOf(bytes) ==
  [t |-> "object", cls |-> "Buffer",
   v |-> [j \in 1..Len(bytes) |-> << <<Digit(j - 1)>>, NumVal(bytes[j]) >>]]
FormDataOf(props) == [t |-> "object", cls |-> "FormData", v |-> props]
\* a string: its own properties are the indices of its code units
StringOf(codes) ==
  [t |-> "string", cls |-> "",
   v |-> [j \in 1..Len(codes) |-> << <<Digit(j - 1)>>, NumVal(codes[j]) >>]]

\* null, a number and a boolean as payloads; a primitive has no own
\* properties and carries its value under the empty key (false as 0, true
\* as 1)
DataNull == [t |-> "object", cls |-> "null", v |-> <<>>]
NumberOf(n) == [t |-> "number", cls |-> "", v |-> << << <<>>, NumVal(n) >> >>]
BooleanOf(b) ==
  [t |-> "boolean", cls |-> "", v |-> << << <<>>, NumVal(IF b THEN 1 ELSE 0) >> >>]

\* a variant of IsFalsy that takes only undefined and null for absent
IsFalsy_Nullish(data) ==
  \/ data.t = "undefined"
  \/ data.t = "object" /\ data.cls = "null"

\* !data : undefined, null, 0, false, "" are falsy
IsFalsy(data) ==
  \/ data.t = "undefined"
  \/ data.t = "object" /\ data.cls = "null"
  \/ data.t = "string" /\ data.v = <<>>
  \/ data.t = "number" /\ data.v[1][2].n = 0
  \/ data.t = "boolean" /\ data.v[1][2].n = 0

\* JSON.stringify throws a TypeError on a BigInt value
CanStringify(data) == \A j \in 1..Len(data.v) : data.v[j][2].t # "bigint"

\* JSON.stringify of a plain object with numeric properties; a Buffer is
\* serialised through its toJSON(): {"type":"Buffer","data":[...]}
JsonStringify(data) ==
  IF data.cls = "Buffer"
  THEN <<"{", "\"", "t", "y", "p", "e", "\"", ":", "\"", "B", "u", "f", "f", "e", "r",
         "\"", ",", "\"", "d", "a", "t", "a", "\"", ":", "[">> \o
       Join([j \in 1..Len(data.v) |-> <<Digit(data.v[j][2].n)>>], <<",">>) \o
       <<"]", "}">>
  ELSE <<"{">> \o
       Join([j \in 1..Len(data.v) |->
               <<"\"">> \o data.v[j][1] \o <<"\"", ":", Digit(data.v[j][2].n)>>],
            <<",">>) \o
       <<"}">>

(***************************************************************************)
(* Errors.  kind names what raised the error, k the interceptor index      *)
(* (0 when none is involved).                                              *)
(***************************************************************************)
Err(kind, k) == [kind |-> kind, k |-> k]
SerializeError == Err("serialize", 0)
TransportErrors == {Err("network", 0), Err("timeout", 0)}
DecodeError == Err("decode", 0)
BodyReadError == Err("bodyread", 0)
\* the error thrown by an error-notification hook
HookError(list, k) == Err(list, k)

(***************************************************************************)
(* Request Builder                                                         *)
(***************************************************************************)
HttpPrefix == <<"h", "t", "t", "p">>

\* private shouldPrependBaseUrl(url): Boolean(baseURL && !url.startsWith("http"))
shouldPrependBaseUrl(opts, url) ==
  /\ IsSome(opts.baseURL)
  /\ Get(opts.baseURL) # <<>>
  /\ ~StartsWith(url, HttpPrefix)

\* application/x-www-form-urlencoded serialisation of one character
FormEncodeChar(ch) ==
  CASE ch = " " -> <<"+">>
    [] ch = "&" -> <<"%", "2", "6">>
    [] ch = "=" -> <<"%", "3", "D">>
    [] ch = "?" -> <<"%", "3", "F">>
    [] ch = "/" -> <<"%", "2", "F">>
    [] ch = "#" -> <<"%", "2", "3">>
    [] OTHER -> <<ch>>

FormEncode(s) == Flatten([j \in 1..Len(s) |-> FormEncodeChar(s[j])])

\* The own properties of an object (a sequence of <<key, value>> in
\* insertion order) as they are enumerated: the integer-index keys in
\* ascending order first, then the other keys in insertion order.
IsIndexKey(key) == \E n \in 0..9 : key = <<Digit(n)>>
OwnEntries(props) ==
  Flatten([n \in 1..10 |-> SelectSeq(props, LAMBDA e : e[1] = <<Digit(n - 1)>>)])
    \o SelectSeq(props, LAMBDA e : ~IsIndexKey(e[1]))

\* new URLSearchParams(params).toString(): one key=value per own property
URLSearchParamsToString(params) ==
  LET entries == OwnEntries(params)
  IN Join([j \in 1..Len(entries) |->
             FormEncode(entries[j][1]) \o <<"=">> \o FormEncode(entries[j][2])],
          <<"&">>)

\* a variant of appendQueryParams that appends the keys and values as they
\* are, without encoding them
appendQueryParams_Raw(url, params) ==
  IF ~IsSome(params) THEN url
  ELSE LET entries == OwnEntries(Get(params))
           queryString == Join([j \in 1..Len(entries) |->
                                  entries[j][1] \o <<"=">> \o entries[j][2]], <<"&">>)
           separator == IF Includes(url, "?") THEN <<"&">> ELSE <<"?">>
       IN url \o separator \o queryString

\* a variant of appendQueryParams that always separates with "?"
appendQueryParams_Question(url, params) ==
  IF ~IsSome(params) THEN url
  ELSE url \o <<"?">> \o URLSearchParamsToString(Get(params))

\* private appendQueryParams(url, params)
appendQueryParams(url, params) ==
  IF ~IsSome(params) THEN url
  ELSE LET queryString == URLSearchParamsToString(Get(params))
           separator == IF Includes(url, "?") THEN <<"&">> ELSE <<"?">>
       IN url \o separator \o queryString

\* private buildUrl(config)
buildUrl(opts, config) ==
  LET baseUrl == IF IsSome(config.url) THEN Get(config.url) ELSE <<>>
      urlWithBase == IF shouldPrependBaseUrl(opts, baseUrl)
                     THEN Get(opts.baseURL) \o baseUrl
                     ELSE baseUrl
  IN appendQueryParams(urlWithBase, config.params)

\* { ...a, ...b }
Spread(a, b) ==
  [key \in DOMAIN a \cup DOMAIN b |-> IF key \in DOMAIN b THEN b[key] ELSE a[key]]

\* a variant of mergeHeaders in which the client's defaults overlay the
\* headers of the call
mergeHeaders_DefaultsWin(opts, config) == Spread(config.headers, opts.headers)

\* private mergeHeaders(config)
mergeHeaders(opts, config) == Spread(opts.headers, config.headers)

\* private isJsonSerializable(data)
isJsonSerializable(data) == data.t = "object" /\ data.cls # "FormData"

NoBody == [form |-> "undefined", text |-> <<>>, data |-> DataUndefined]
TextBody(chars) == [form |-> "string", text |-> chars, data |-> DataUndefined]
RawBody(data) == [form |-> "raw", text |-> <<>>, data |-> data]

\* headers["Content-Type"] = headers["Content-Type"] || DEFAULT_CONTENT_TYPE
WithContentType(headers) ==
  LET cur == IF "Content-Type" \in DOMAIN headers THEN headers["Content-Type"] ELSE ""
  IN Spread(headers,
            [key \in {"Content-Type"} |->
               IF cur # "" THEN cur ELSE DEFAULT_CONTENT_TYPE])

\* private prepareRequestBody(config, headers): the body, the headers object
\* as the call leaves it, and whether JSON.stringify threw.
prepareRequestBody(config, headers) ==
  IF IsFalsy(config.data)
  THEN [threw |-> FALSE, body |-> NoBody, headers |-> headers]
  ELSE IF isJsonSerializable(config.data)
  THEN IF CanStringify(config.data)
       THEN [threw |-> FALSE, body |-> TextBody(JsonStringify(config.data)),
             headers |-> WithContentType(headers)]
       ELSE [threw |-> TRUE, body |-> NoBody, headers |-> WithContentType(headers)]
  ELSE [threw |-> FALSE, body |-> RawBody(config.data), headers |-> headers]

\* the second argument of undici's request() in performRequest
RequestOptions(opts, ag, config, headers, body) ==
  [method |-> IF IsSome(config.method) /\ Get(config.method) # ""
              THEN Get(config.method) ELSE DEFAULT_METHOD,
   headers |-> headers,
   body |-> body,
   dispatcher |-> ag,
   bodyTimeout |-> IF IsSome(config.timeout) /\ Get(config.timeout) # 0
                   THEN config.timeout ELSE opts.timeout]

(***************************************************************************)
(* Response Decoder                                                        *)
(***************************************************************************)
\* a variant of ParserOf that ignores the declared response type
ParserOf_Json(config) == DEFAULT_RESPONSE_TYPE

\* config.responseType || DEFAULT_RESPONSE_TYPE, then
\* parsers[responseType] || parsers[DEFAULT_RESPONSE_TYPE]
ParserOf(config) ==
  IF IsSome(config.responseType)
     /\ Get(config.responseType) \in {"json", "text", "arraybuffer", "stream"}
  THEN Get(config.responseType)
  ELSE DEFAULT_RESPONSE_TYPE

\* Whether the parser chosen for config rejects on this response: every
\* reading parser rejects when the body cannot be read, json() also on a
\* malformed body; "stream" reads nothing.
ParserThrows(response, config) ==
  LET parser == ParserOf(config)
  IN \/ parser # "stream" /\ response.body.fails
     \/ parser = "json" /\ ~response.body.valid

ParserError(response, config) ==
  IF ParserOf(config) # "stream" /\ response.body.fails
  THEN BodyReadError ELSE DecodeError

\* what the parser chosen for config yields on this response
ParsedData(response, config) ==
  [form |-> ParserOf(config), of |-> response.body.raw]

\* a variant of getStatusText that treats every 2xx status as OK
getStatusText_Success(statusCode) ==
  IF statusCode \in 200..299 THEN OK_STATUS_TEXT ELSE ERROR_STATUS_TEXT

\* private getStatusText(statusCode)
getStatusText(statusCode) ==
  IF statusCode = OK_STATUS THEN OK_STATUS_TEXT ELSE ERROR_STATUS_TEXT

\* private createHttpResponse(response, data)
createHttpResponse(response, data) ==
  [data |-> data,
   status |-> response.statusCode,
   statusText |-> getStatusText(response.statusCode),
   headers |-> response.headers]

(***************************************************************************)
(* Values of the model: the descriptors a caller or an onRequest hook may  *)
(* produce, the responses the transport may return, the envelopes an       *)
(* onResponse hook may return.                                             *)
(***************************************************************************)
BaseURL == <<"h", "t", "t", "p", ":", "b">>

DescA ==
  [url |-> Some(<<"/", "u">>), method |-> None, headers |-> [X |-> "1"],
   params |-> None, data |-> DataUndefined, timeout |-> None,
   responseType |-> None]

DescB ==
  [url |-> Some(<<"h", "t", "t", "p", ":", "x">>), method |-> Some("POST"),
   headers |-> [Y |-> "2"],
   params |-> Some(<< << <<"q">>, <<"a", " ", "b">> >> >>),
   data |-> PlainObject(<< << <<"i", "d">>, NumVal(1) >> >>),
   timeout |-> Some(7), responseType |-> Some("text")]

DescC ==
  [url |-> Some(<<"/", "v", "?", "z">>), method |-> Some("PUT"),
   headers |-> [k \in {} |-> ""],
   params |-> Some(<< << <<"p">>, <<"1">> >> >>),
   data |-> PlainObject(<< << <<"n">>, BigIntVal(1) >> >>),
   timeout |-> Some(0), responseType |-> Some("stream")]

DescD ==
  [url |-> Some(<<"/", "w">>), method |-> None, headers |-> [k \in {} |-> ""],
   params |-> None, data |-> DataUndefined, timeout |-> Some(0),
   responseType |-> None]

\* what a caller may hand to request()
Descriptors == {DescA, DescB, DescC}
\* what an onRequest hook may return
HookDescriptors == {DescB, DescC}

Body(raw, valid, fails) == [raw |-> raw, valid |-> valid, fails |-> fails]

Responses ==
  {[statusCode |-> 200, headers |-> [ct |-> "json"], body |-> Body("r1", TRUE, FALSE)],
   [statusCode |-> 404, headers |-> [ct |-> "html"], body |-> Body("r2", FALSE, FALSE)],
   [statusCode |-> 201, headers |-> [ct |-> "json"], body |-> Body("r3", TRUE, TRUE)]}

EnvX ==
  [data |-> [form |-> "hook", of |-> "x"], status |-> 200, statusText |-> "OK",
   headers |-> [ct |-> "x"]]
EnvY ==
  [data |-> [form |-> "hook", of |-> "y"], status |-> 500, statusText |-> "Error",
   headers |-> [ct |-> "y"]]

Envelopes == {EnvX, EnvY}

(***************************************************************************)
(* The history of a call: one event when an awaited operation is invoked   *)
(* (ph = "call", val its argument) and one when it settles (ph = "return"  *)
(* with the value, ph = "throw" with the error).                           *)
(***************************************************************************)
Ev(op, list, k, ph, val) ==
  [op |-> op, list |-> list, k |-> k, ph |-> ph, val |-> val]

\* the awaited operations and how they are recorded
Ops == {"onRequest", "prepare", "dispatch", "decode", "onResponse", "onError"}
Phs == {"call", "return", "throw"}

\* the event is appended to the history; at[op][ph] indexes the positions
\* of the events of op in phase ph
Logged(s, ev) ==
  [s EXCEPT !.log = Append(@, ev),
            !.at[ev.op][ev.ph] = @ \cup {Len(s.log) + 1}]

\* closes: how many close() the client had been given when the call was made;
\* subs: the subscribers of the observable request() returned, each with
\* what it was notified of
IdleCall ==
  [pc |-> "idle", i |-> 0, via |-> None, closes |-> 0, subs |-> <<>>, config |-> None, finalConfig |-> None,
   sent |-> None, response |-> None, finalResponse |-> None,
   error |-> None, value |-> None, thrown |-> None, log |-> <<>>,
   at |-> [op \in Ops |-> [ph \in Phs |-> {}]]]

\* a variant of Resolve in which the executor goes on waiting for something
\* that no hook, dispatch or decode settles
Resolve_Waits(s, v) == [s EXCEPT !.pc = "waiting", !.i = 0, !.value = Some(v)]

\* the promise of executeRequest settles
Resolve(s, v) == [s EXCEPT !.pc = "complete", !.i = 0, !.value = Some(v)]
Reject(s, e) == [s EXCEPT !.pc = "failed", !.i = 0, !.thrown = Some(e)]

\* a variant of NextHook that takes every interceptor to have the hook
NextHook_Every(list, hook, j) == IF j <= Len(list) THEN j ELSE 0

\* index of the first interceptor at or after j that has the hook, 0 if none
NextHook(list, hook, j) ==
  LET with == {k \in j..Len(list) : list[k][hook]}
  IN IF with = {} THEN 0 ELSE CHOOSE k \in with : \A m \in with : k <= m

(***************************************************************************)
(* Request Executor                                                        *)
(***************************************************************************)
\* a variant of performRequest that dispatches through an agent constructed
\* for the call
performRequest_NewAgent(s, url, config, headers, body) ==
  LET own == [agent EXCEPT !.id = "call"]
      args == [url |-> url,
               opts |-> RequestOptions(options, own, config, headers, body)]
  IN Logged([s EXCEPT !.pc = "dispatch", !.i = 0, !.sent = Some(args)],
            Ev("dispatch", "", 0, "call", Some(args)))

\* performRequest: request(url, {...}) is invoked and awaited
performRequest(s, url, config, headers, body) ==
  LET args == [url |-> url,
               opts |-> RequestOptions(options, agent, config, headers, body)]
  IN Logged([s EXCEPT !.pc = "dispatch", !.i = 0, !.sent = Some(args)],
            Ev("dispatch", "", 0, "call", Some(args)))

\* a variant of BuildAndDispatch that builds the request from the call's
\* original descriptor instead of the value the request chain produced
BuildAndDispatch_FromConfig(s) ==
  LET config == Get(s.config)
      headers == mergeHeaders(options, config)
      prep == prepareRequestBody(config, headers)
  IN IF prep.threw
     THEN Reject(Logged(s, Ev("prepare", "", 0, "throw", Some(SerializeError))),
                 SerializeError)
     ELSE performRequest(s, buildUrl(options, config), config, prep.headers, prep.body)

\* a variant of BuildAndDispatch in which prepareRequestBody is handed the
\* headers object of the descriptor and mergeHeaders fills it in place: the
\* merged headers and Content-Type end up in the descriptor
BuildAndDispatch_WritesBack(s) ==
  LET finalConfig == Get(s.finalConfig)
      url == buildUrl(options, finalConfig)
      headers == mergeHeaders(options, finalConfig)
      prep == prepareRequestBody(finalConfig, headers)
      written == Some([finalConfig EXCEPT !.headers = prep.headers])
  IN IF prep.threw
     THEN Reject(Logged(s, Ev("prepare", "", 0, "throw", Some(SerializeError))),
                 SerializeError)
     ELSE performRequest([s EXCEPT !.finalConfig = written,
                                   !.config = IF s.config = s.finalConfig
                                              THEN written ELSE s.config],
                         url, finalConfig, prep.headers, prep.body)

\* executeRequest after applyRequestInterceptors returned finalConfig:
\* buildUrl, mergeHeaders, prepareRequestBody, then performRequest.
\* An exception of prepareRequestBody is outside the try block.
BuildAndDispatch(s) ==
  LET finalConfig == Get(s.finalConfig)
      url == buildUrl(options, finalConfig)
      headers == mergeHeaders(options, finalConfig)
      prep == prepareRequestBody(finalConfig, headers)
  IN IF prep.threw
     THEN Reject(Logged(s, Ev("prepare", "", 0, "throw", Some(SerializeError))),
                 SerializeError)
     ELSE performRequest(s, url, finalConfig, prep.headers, prep.body)

\* applyRequestInterceptors: the loop from interceptor j on, up to the
\* next awaited onRequest hook or to the return of finalConfig
applyRequestInterceptors(s, j) ==
  LET k == NextHook(requestInterceptors, "onRequest", j)
  IN IF k # 0
     THEN Logged([s EXCEPT !.pc = "onRequest", !.i = k],
                 Ev("onRequest", "request", k, "call", s.finalConfig))
     ELSE BuildAndDispatch(s)

\* a variant of handleRequestError that notifies the first onError hook only
handleRequestError_FirstOnly(s, j) ==
  LET k == NextHook(responseInterceptors, "onError", j)
  IN IF k # 0 /\ j = 1
     THEN Logged([s EXCEPT !.pc = "broadcast", !.i = k],
                 Ev("onError", "response", k, "call", s.error))
     ELSE Reject(s, Get(s.error))

\* handleRequestError(error): the loop from interceptor j on, up to the next
\* awaited onError hook; after the loop executeRequest rethrows error
handleRequestError(s, j) ==
  LET k == NextHook(responseInterceptors, "onError", j)
  IN IF k # 0
     THEN Logged([s EXCEPT !.pc = "broadcast", !.i = k],
                 Ev("onError", "response", k, "call", s.error))
     ELSE Reject(s, Get(s.error))

\* a variant of the catch block that notifies and rethrows a new error
\* wrapping the caught one
CatchRequestError_Wrap(s, e) ==
  handleRequestError([s EXCEPT !.error = Some(Err("wrapped", e.k))], 1)

\* a variant of the catch block that notifies the request interceptors
\* with an onError hook (the first of them) instead of the response ones
CatchRequestError_Request(s, e) ==
  LET k == NextHook(requestInterceptors, "onError", 1)
  IN IF k # 0
     THEN Logged([s EXCEPT !.pc = "reqOnError", !.i = k, !.error = Some(e)],
                 Ev("onError", "request", k, "call", Some(e)))
     ELSE handleRequestError([s EXCEPT !.error = Some(e)], 1)

\* the catch block of executeRequest
CatchRequestError(s, e) == handleRequestError([s EXCEPT !.error = Some(e)], 1)

\* a variant of applyResponseInterceptors that ends with a notification of
\* the onError hooks (as in a finally block) also when nothing failed
applyResponseInterceptors_Finally(s, j) ==
  LET k == NextHook(responseInterceptors, "onResponse", j)
      n == NextHook(responseInterceptors, "onError", 1)
  IN IF k # 0
     THEN Logged([s EXCEPT !.pc = "onResponse", !.i = k],
                 Ev("onResponse", "response", k, "call", s.finalResponse))
     ELSE IF n # 0
     THEN Logged([s EXCEPT !.pc = "broadcast", !.i = n,
                           !.error = Some(Err("none", 0))],
                 Ev("onError", "response", n, "call", Some(Err("none", 0))))
     ELSE Resolve(s, Get(s.finalResponse))

\* applyResponseInterceptors: the loop from interceptor j on, up to the
\* next awaited onResponse hook or to the return of finalResponse
applyResponseInterceptors(s, j) ==
  LET k == NextHook(responseInterceptors, "onResponse", j)
  IN IF k # 0
     THEN Logged([s EXCEPT !.pc = "onResponse", !.i = k],
                 Ev("onResponse", "response", k, "call", s.finalResponse))
     ELSE Resolve(s, Get(s.finalResponse))

(***************************************************************************)
(* Construction                                                            *)
(***************************************************************************)
CONNECTION_COUNT == 10
PIPELINING_LIMIT == 10
KEEP_ALIVE_TIMEOUT == 4000
KEEP_ALIVE_MAX_TIMEOUT == 600000
CONNECT_TIMEOUT == 10000
BODY_TIMEOUT == 30000
HEADERS_TIMEOUT == 30000

\* x || d for an optional number
OrDefault(o, d) == IF IsSome(o) /\ Get(o) # 0 THEN Get(o) ELSE d

\* private createAgent()
createAgent(opts) ==
  IF IsSome(opts.agent) THEN Get(opts.agent)
  ELSE [id |-> "constructed",
        connections |-> OrDefault(opts.connections, CONNECTION_COUNT),
        pipelining |-> OrDefault(opts.pipelining, PIPELINING_LIMIT),
        keepAliveTimeout |-> OrDefault(opts.keepAliveTimeout, KEEP_ALIVE_TIMEOUT),
        keepAliveMaxTimeout |->
          OrDefault(opts.keepAliveMaxTimeout, KEEP_ALIVE_MAX_TIMEOUT),
        connectTimeout |-> OrDefault(opts.connectTimeout, CONNECT_TIMEOUT),
        bodyTimeout |-> OrDefault(opts.bodyTimeout, BODY_TIMEOUT),
        headersTimeout |-> OrDefault(opts.headersTimeout, HEADERS_TIMEOUT)]

\* an agent constructed by the caller and handed over in options.agent
SuppliedAgent ==
  [id |-> "supplied", connections |-> 1, pipelining |-> 1, keepAliveTimeout |-> 1,
   keepAliveMaxTimeout |-> 1, connectTimeout |-> 1, bodyTimeout |-> 1,
   headersTimeout |-> 1]

\* The agent object after the constructor: how many agents createAgent()
\* constructed with new Agent, the agent's stats, the values getPoolStats()
\* returned so far, the invocations of close() of the client and of
\* agent.close(), the state of the last of the latter and the state of the
\* promise of the last close() of the client.
NewPool(opts) ==
  [constructed |-> IF IsSome(opts.agent) THEN 0 ELSE 1,
   stats |-> 0, read |-> <<>>, closeInvoked |-> 0, closeCalls |-> 0,
   agentClose |-> "none", close |-> "none"]

\* The interceptors of the model: each hook present or absent.  An
\* interceptor with no hook at all is passed over by every loop and is left
\* out.
RequestInterceptorKinds ==
  {r \in [onRequest : BOOLEAN, onError : BOOLEAN] : r.onRequest \/ r.onError}
ResponseInterceptorKinds ==
  {r \in [onResponse : BOOLEAN, onError : BOOLEAN] : r.onResponse \/ r.onError}

\* the configurations a client of the model is constructed from
OptionsOf(req, resp) ==
  [baseURL |-> Some(BaseURL),
   headers |-> [X |-> "0", D |-> "d"],
   timeout |-> Some(5),
   agent |-> None,
   connections |-> Some(4), pipelining |-> None, keepAliveTimeout |-> None,
   keepAliveMaxTimeout |-> None, connectTimeout |-> None,
   bodyTimeout |-> None, headersTimeout |-> None,
   interceptors |-> Some([request |-> req, response |-> resp])]

\* constructor: createAgent(), initializeInterceptors()
Init ==
  /\ \E req \in [1..NReq -> RequestInterceptorKinds],
        resp \in [1..NResp -> ResponseInterceptorKinds] :
       options = OptionsOf(req, resp)
  /\ agent = createAgent(options)
  /\ requestInterceptors =
       IF IsSome(options.interceptors) THEN Get(options.interceptors).request ELSE <<>>
  /\ responseInterceptors =
       IF IsSome(options.interceptors) THEN Get(options.interceptors).response ELSE <<>>
  /\ pool = NewPool(options)
  /\ container = None
  /\ calls = [c \in CallIds |-> IdleCall]

(***************************************************************************)
(* Actions                                                                 *)
(***************************************************************************)
\* a variant of Set in which the headers object handed to the transport is
\* the configured default mapping itself (merged in place)
Set_WritesDefaults(c, s) ==
  /\ calls' = [calls EXCEPT ![c] = s]
  /\ options' = IF IsSome(s.sent)
                THEN [options EXCEPT !.headers = Get(s.sent).opts.headers]
                ELSE options
  /\ UNCHANGED <<agent, requestInterceptors, responseInterceptors, pool, container>>

Set(c, s) ==
  /\ calls' = [calls EXCEPT ![c] = s]
  /\ UNCHANGED service

\* executeRequest(config) up to its first await: let finalConfig = config
executeRequest(s, config) ==
  applyRequestInterceptors(
    [s EXCEPT !.config = Some(config), !.finalConfig = Some(config)], 1)

\* request(config): executeRequest(config) starts at once
Request(c, config) ==
  /\ calls[c].pc = "idle"
  /\ Set(c, executeRequest([calls[c] EXCEPT !.closes = pool.closeInvoked], config))

\* a descriptor with no field set, and {...config} for an optional config
EmptyConfig ==
  [url |-> None, method |-> None, headers |-> [k \in {} |-> ""], params |-> None,
   data |-> DataUndefined, timeout |-> None, responseType |-> None]
SpreadConfig(config) == IF IsSome(config) THEN Get(config) ELSE EmptyConfig

\* the call remembers the facade operation that started it and its arguments
Invoked(s, verb, url, data, config) ==
  [s EXCEPT !.via = Some([verb |-> verb, url |-> url, data |-> data,
                          config |-> config])]

\* get(url, config?): request({...config, url, method: "GET"})
get(c, url, config) ==
  /\ calls[c].pc = "idle"
  /\ Set(c, executeRequest(Invoked(calls[c], "get", url, DataUndefined, config),
                           [SpreadConfig(config) EXCEPT !.url = Some(url),
                                                        !.method = Some("GET")]))

\* a variant of post in which the fields of config overlay url, method and
\* data: request({url, method: "POST", data, ...config})
post_ConfigWins(c, url, data, config) ==
  /\ calls[c].pc = "idle"
  /\ Set(c, executeRequest(
               Invoked(calls[c], "post", url, data, config),
               LET cfg == SpreadConfig(config)
               IN [cfg EXCEPT
                     !.url = IF IsSome(cfg.url) THEN cfg.url ELSE Some(url),
                     !.method = IF IsSome(cfg.method) THEN cfg.method ELSE Some("POST"),
                     !.data = IF cfg.data # DataUndefined THEN cfg.data ELSE data]))

\* post(url, data?, config?): request({...config, url, method: "POST", data})
post(c, url, data, config) ==
  /\ calls[c].pc = "idle"
  /\ Set(c, executeRequest(Invoked(calls[c], "post", url, data, config),
                           [SpreadConfig(config) EXCEPT !.url = Some(url),
                                                        !.method = Some("POST"),
                                                        !.data = data]))

\* put(url, data?, config?): request({...config, url, method: "PUT", data})
put(c, url, data, config) ==
  /\ calls[c].pc = "idle"
  /\ Set(c, executeRequest(Invoked(calls[c], "put", url, data, config),
                           [SpreadConfig(config) EXCEPT !.url = Some(url),
                                                        !.method = Some("PUT"),
                                                        !.data = data]))

\* delete(url, config?): request({...config, url, method: "DELETE"})
delete(c, url, config) ==
  /\ calls[c].pc = "idle"
  /\ Set(c, executeRequest(Invoked(calls[c], "delete", url, DataUndefined, config),
                           [SpreadConfig(config) EXCEPT !.url = Some(url),
                                                        !.method = Some("DELETE")]))

\* patch(url, data?, config?): request({...config, url, method: "PATCH", data})
patch(c, url, data, config) ==
  /\ calls[c].pc = "idle"
  /\ Set(c, executeRequest(Invoked(calls[c], "patch", url, data, config),
                           [SpreadConfig(config) EXCEPT !.url = Some(url),
                                                        !.method = Some("PATCH"),
                                                        !.data = data]))

\* head(url, config?): request({...config, url, method: "HEAD"})
head(c, url, config) ==
  /\ calls[c].pc = "idle"
  /\ Set(c, executeRequest(Invoked(calls[c], "head", url, DataUndefined, config),
                           [SpreadConfig(config) EXCEPT !.url = Some(url),
                                                        !.method = Some("HEAD")]))

\* a variant of OnRequestReturns in which finalConfig is a field of the
\* service instead of a local of the call: the value the hook returned
\* becomes the descriptor of every call that is in its request chain
OnRequestReturns_Shared(c, v) ==
  LET s == calls[c]
  IN /\ s.pc = "onRequest"
     /\ calls' = [d \in CallIds |->
                    IF d = c
                    THEN applyRequestInterceptors(
                           Logged([s EXCEPT !.finalConfig = Some(v)],
                                  Ev("onRequest", "request", s.i, "return", Some(v))),
                           s.i + 1)
                    ELSE IF calls[d].pc = "onRequest"
                    THEN [calls[d] EXCEPT !.finalConfig = Some(v)]
                    ELSE calls[d]]
     /\ UNCHANGED service

\* finalConfig = await interceptor.onRequest(finalConfig)
OnRequestReturns(c, v) ==
  LET s == calls[c]
  IN /\ s.pc = "onRequest"
     /\ Set(c, applyRequestInterceptors(
                 Logged([s EXCEPT !.finalConfig = Some(v)],
                        Ev("onRequest", "request", s.i, "return", Some(v))),
                 s.i + 1))

\* a variant of OnRequestThrows that swallows the failure and goes on with
\* the next request interceptor
OnRequestThrows_Swallow(c) ==
  LET s == calls[c]
      e == Err("onRequest", s.i)
  IN /\ s.pc = "onRequest"
     /\ Set(c, applyRequestInterceptors(
                 Logged(s, Ev("onRequest", "request", s.i, "throw", Some(e))),
                 s.i + 1))

\* a variant of OnRequestThrows in which the request chain runs inside the
\* try block of executeRequest, so that its failure is broadcast
OnRequestThrows_Broadcast(c) ==
  LET s == calls[c]
      e == Err("onRequest", s.i)
  IN /\ s.pc = "onRequest"
     /\ Set(c, CatchRequestError(
                 Logged(s, Ev("onRequest", "request", s.i, "throw", Some(e))), e))

\* onRequest throws: catch, own onError if present, rethrow
OnRequestThrows(c) ==
  LET s == calls[c]
      e == Err("onRequest", s.i)
      t == Logged(s, Ev("onRequest", "request", s.i, "throw", Some(e)))
  IN /\ s.pc = "onRequest"
     /\ Set(c, IF requestInterceptors[s.i].onError
               THEN Logged([t EXCEPT !.pc = "reqOnError", !.error = Some(e)],
                           Ev("onError", "request", s.i, "call", Some(e)))
               ELSE Reject(t, e))

\* await interceptor.onError(error) returned: throw error
ReqOnErrorReturns(c) ==
  LET s == calls[c]
  IN /\ s.pc = "reqOnError"
     /\ Set(c, Reject(Logged(s, Ev("onError", "request", s.i, "return", None)),
                      Get(s.error)))

\* the onError hook of the request interceptor throws itself
ReqOnErrorThrows(c) ==
  LET s == calls[c]
      h == HookError("reqOnError", s.i)
  IN /\ s.pc = "reqOnError"
     /\ Set(c, Reject(Logged(s, Ev("onError", "request", s.i, "throw", Some(h))), h))

\* request() resolved with a response: parseResponseData awaits the parser
DispatchReturns(c, r) ==
  LET s == calls[c]
      t == Logged([s EXCEPT !.response = Some(r)],
                  Ev("dispatch", "", 0, "return", Some(r)))
  IN /\ s.pc = "dispatch"
     /\ Set(c, Logged([t EXCEPT !.pc = "decode"],
                      Ev("decode", "", 0, "call", Some(r))))

\* a variant of DispatchThrows that dispatches a second time before giving up
DispatchThrows_Retry(c, e) ==
  LET s == calls[c]
      t == Logged(s, Ev("dispatch", "", 0, "throw", Some(e)))
      sent == Get(s.sent)
  IN /\ s.pc = "dispatch"
     /\ Set(c, IF Cardinality(s.at["dispatch"]["call"]) < 2
               THEN performRequest(t, sent.url, Get(s.finalConfig),
                                   sent.opts.headers, sent.opts.body)
               ELSE CatchRequestError(t, e))

\* request() rejected: the catch block of executeRequest
DispatchThrows(c, e) ==
  LET s == calls[c]
  IN /\ s.pc = "dispatch"
     /\ Set(c, CatchRequestError(
                 Logged(s, Ev("dispatch", "", 0, "throw", Some(e))), e))

\* the parser resolved: createHttpResponse, applyResponseInterceptors
DecodeReturns(c) ==
  LET s == calls[c]
      response == Get(s.response)
      finalConfig == Get(s.finalConfig)
      data == ParsedData(response, finalConfig)
      httpResponse == createHttpResponse(response, data)
  IN /\ s.pc = "decode"
     /\ ~ParserThrows(response, finalConfig)
     /\ Set(c, applyResponseInterceptors(
                 Logged([s EXCEPT !.finalResponse = Some(httpResponse)],
                        Ev("decode", "", 0, "return", Some(data))), 1))

\* a variant of DecodeThrows that goes on to the response interceptors with
\* an envelope without data
DecodeThrows_Continue(c) ==
  LET s == calls[c]
      e == ParserError(Get(s.response), Get(s.finalConfig))
      httpResponse == createHttpResponse(Get(s.response), [form |-> "none", of |-> ""])
  IN /\ s.pc = "decode"
     /\ ParserThrows(Get(s.response), Get(s.finalConfig))
     /\ Set(c, applyResponseInterceptors(
                 Logged([s EXCEPT !.finalResponse = Some(httpResponse)],
                        Ev("decode", "", 0, "throw", Some(e))), 1))

\* a variant of DecodeThrows in which the decode is outside the try block:
\* the call rejects with the parser's error and nobody is notified
DecodeThrows_Unnotified(c) ==
  LET s == calls[c]
      e == ParserError(Get(s.response), Get(s.finalConfig))
  IN /\ s.pc = "decode"
     /\ ParserThrows(Get(s.response), Get(s.finalConfig))
     /\ Set(c, Reject(Logged(s, Ev("decode", "", 0, "throw", Some(e))), e))

\* the parser rejected: the catch block of executeRequest
DecodeThrows(c) ==
  LET s == calls[c]
      e == ParserError(Get(s.response), Get(s.finalConfig))
  IN /\ s.pc = "decode"
     /\ ParserThrows(Get(s.response), Get(s.finalConfig))
     /\ Set(c, CatchRequestError(
                 Logged(s, Ev("decode", "", 0, "throw", Some(e))), e))

\* a variant of OnResponseReturns that drops the value the hook returned
OnResponseReturns_Discard(c, v) ==
  LET s == calls[c]
  IN /\ s.pc = "onResponse"
     /\ Set(c, applyResponseInterceptors(
                 Logged(s, Ev("onResponse", "response", s.i, "return", Some(v))),
                 s.i + 1))

\* finalResponse = await interceptor.onResponse(finalResponse)
OnResponseReturns(c, v) ==
  LET s == calls[c]
  IN /\ s.pc = "onResponse"
     /\ Set(c, applyResponseInterceptors(
                 Logged([s EXCEPT !.finalResponse = Some(v)],
                        Ev("onResponse", "response", s.i, "return", Some(v))),
                 s.i + 1))

\* a variant of OnResponseThrows that swallows the failure and goes on with
\* the next response interceptor
OnResponseThrows_Swallow(c) ==
  LET s == calls[c]
      e == Err("onResponse", s.i)
  IN /\ s.pc = "onResponse"
     /\ Set(c, applyResponseInterceptors(
                 Logged(s, Ev("onResponse", "response", s.i, "throw", Some(e))),
                 s.i + 1))

\* onResponse throws: catch, own onError if present, rethrow; the rethrown
\* error is caught by the catch block of executeRequest
OnResponseThrows(c) ==
  LET s == calls[c]
      e == Err("onResponse", s.i)
      t == Logged(s, Ev("onResponse", "response", s.i, "throw", Some(e)))
  IN /\ s.pc = "onResponse"
     /\ Set(c, IF responseInterceptors[s.i].onError
               THEN Logged([t EXCEPT !.pc = "respOnError", !.error = Some(e)],
                           Ev("onError", "response", s.i, "call", Some(e)))
               ELSE CatchRequestError(t, e))

\* the failing interceptor's own onError returned: throw error, which the
\* catch block of executeRequest catches
RespOnErrorReturns(c) ==
  LET s == calls[c]
  IN /\ s.pc = "respOnError"
     /\ Set(c, CatchRequestError(
                 Logged(s, Ev("onError", "response", s.i, "return", None)),
                 Get(s.error)))

\* the failing interceptor's own onError throws: its error is what the
\* catch block of executeRequest catches
RespOnErrorThrows(c) ==
  LET s == calls[c]
      h == HookError("respOnError", s.i)
  IN /\ s.pc = "respOnError"
     /\ Set(c, CatchRequestError(
                 Logged(s, Ev("onError", "response", s.i, "throw", Some(h))), h))

\* an onError hook of handleRequestError returned: next one, or throw error
BroadcastReturns(c) ==
  LET s == calls[c]
  IN /\ s.pc = "broadcast"
     /\ Set(c, handleRequestError(
                 Logged(s, Ev("onError", "response", s.i, "return", None)),
                 s.i + 1))

\* a variant of BroadcastThrows that swallows the hook's error and goes on
\* with the next onError hook
BroadcastThrows_Continue(c) ==
  LET s == calls[c]
      h == HookError("broadcastOnError", s.i)
  IN /\ s.pc = "broadcast"
     /\ Set(c, handleRequestError(
                 Logged(s, Ev("onError", "response", s.i, "throw", Some(h))),
                 s.i + 1))

\* an onError hook of handleRequestError throws: executeRequest rejects with
\* the hook's error
BroadcastThrows(c) ==
  LET s == calls[c]
      h == HookError("broadcastOnError", s.i)
  IN /\ s.pc = "broadcast"
     /\ Set(c, Reject(Logged(s, Ev("onError", "response", s.i, "throw", Some(h))), h))

\* the calls made under Spec
Active == {"c1"}

Step(c) ==
  \/ \E config \in Descriptors : Request(c, config)
  \/ \E v \in HookDescriptors : OnRequestReturns(c, v)
  \/ OnRequestThrows(c)
  \/ ReqOnErrorReturns(c)
  \/ ReqOnErrorThrows(c)
  \/ \E r \in Responses : DispatchReturns(c, r)
  \/ \E e \in TransportErrors : DispatchThrows(c, e)
  \/ DecodeReturns(c)
  \/ DecodeThrows(c)
  \/ \E v \in Envelopes : OnResponseReturns(c, v)
  \/ OnResponseThrows(c)
  \/ RespOnErrorReturns(c)
  \/ RespOnErrorThrows(c)
  \/ BroadcastReturns(c)
  \/ BroadcastThrows(c)

Next == \E c \in Active : Step(c)

Spec == Init /\ [][Next]_vars

(***************************************************************************)
(* Pool operations.  The agent is the environment: its stats change as it  *)
(* opens and closes connections, and its close() settles when it chooses.  *)
(***************************************************************************)
\* a variant of GetPoolStats that returns the stats read at construction
GetPoolStats_Stale ==
  /\ Len(pool.read) < MaxReads
  /\ pool' = [pool EXCEPT !.read = Append(@, 0)]
  /\ UNCHANGED <<options, agent, requestInterceptors, responseInterceptors,
                                container, calls>>

\* getPoolStats(): return this.agent.stats
GetPoolStats ==
  /\ Len(pool.read) < MaxReads
  /\ pool' = [pool EXCEPT !.read = Append(@, pool.stats)]
  /\ UNCHANGED <<options, agent, requestInterceptors, responseInterceptors,
                                container, calls>>

\* the agent's stats change
StatsChange ==
  /\ \E n \in (0..MaxStats) \ {pool.stats} : pool' = [pool EXCEPT !.stats = n]
  /\ UNCHANGED <<options, agent, requestInterceptors, responseInterceptors,
                                container, calls>>

\* a variant of Close that does not wait for the agent: the promise of
\* close() is fulfilled at once
Close_NotAwaited ==
  /\ pool.closeInvoked < MaxClose
  /\ pool' = [pool EXCEPT !.closeInvoked = @ + 1, !.closeCalls = @ + 1,
                          !.agentClose = "pending", !.close = "fulfilled"]
  /\ UNCHANGED <<options, agent, requestInterceptors, responseInterceptors,
                                container, calls>>

\* a variant of Close with a guard of its own: a client that was closed
\* before does not call the agent again
Close_Guarded ==
  /\ pool.closeInvoked < MaxClose
  /\ pool' = IF pool.closeInvoked > 0
             THEN [pool EXCEPT !.closeInvoked = @ + 1]
             ELSE [pool EXCEPT !.closeInvoked = @ + 1, !.closeCalls = @ + 1,
                               !.agentClose = "pending", !.close = "pending"]
  /\ UNCHANGED <<options, agent, requestInterceptors, responseInterceptors,
                                container, calls>>

\* close(): return this.agent.close(); the promise of close() follows the
\* promise of the agent
Close ==
  /\ pool.closeInvoked < MaxClose
  /\ pool' = [pool EXCEPT !.closeInvoked = @ + 1, !.closeCalls = @ + 1,
                          !.agentClose = "pending", !.close = "pending"]
  /\ UNCHANGED <<options, agent, requestInterceptors, responseInterceptors,
                                container, calls>>

\* the promise of agent.close() settles
AgentCloseSettles ==
  /\ pool.agentClose = "pending"
  /\ \E outcome \in {"fulfilled", "rejected"} :
       pool' = [pool EXCEPT !.agentClose = outcome]
  /\ UNCHANGED <<options, agent, requestInterceptors, responseInterceptors,
                                container, calls>>

\* the promise of close() settles as the promise of agent.close() did
CloseSettles ==
  /\ pool.close = "pending"
  /\ pool.agentClose \in {"fulfilled", "rejected"}
  /\ pool' = [pool EXCEPT !.close = pool.agentClose]
  /\ UNCHANGED <<options, agent, requestInterceptors, responseInterceptors,
                                container, calls>>

(***************************************************************************)
(* The client and its agent: clients constructed with and without an       *)
(* agent of the caller and with pool parameters left out, set to 0 or set  *)
(* to a positive value; calls dispatched through them.                     *)
(***************************************************************************)
PoolParams ==
  {"connections", "pipelining", "keepAliveTimeout", "keepAliveMaxTimeout",
   "connectTimeout", "bodyTimeout", "headersTimeout"}

\* the pool parameters of a configuration: none, one of them (0 or 3), all
PoolSettings ==
  {f \in [PoolParams -> {None, Some(0), Some(3)}] :
     \/ Cardinality({q \in PoolParams : f[q] # None}) <= 1
     \/ \A q \in PoolParams : f[q] = Some(3)}

AgentOptions ==
  {[OptionsOf(<<>>, <<>>) EXCEPT
      !.interceptors = None, !.agent = a,
      !.connections = f["connections"], !.pipelining = f["pipelining"],
      !.keepAliveTimeout = f["keepAliveTimeout"],
      !.keepAliveMaxTimeout = f["keepAliveMaxTimeout"],
      !.connectTimeout = f["connectTimeout"], !.bodyTimeout = f["bodyTimeout"],
      !.headersTimeout = f["headersTimeout"]] :
     a \in {None, Some(SuppliedAgent)}, f \in PoolSettings}

InitAgent ==
  /\ options \in {o \in AgentOptions :
                    IsSome(o.agent) => o.connections \in {None, Some(3)}}
  /\ agent = createAgent(options)
  /\ requestInterceptors =
       IF IsSome(options.interceptors) THEN Get(options.interceptors).request ELSE <<>>
  /\ responseInterceptors =
       IF IsSome(options.interceptors) THEN Get(options.interceptors).response ELSE <<>>
  /\ pool = NewPool(options)
  /\ container = None
  /\ calls = [c \in CallIds |-> IdleCall]

NextAgent ==
  \/ \E c \in CallIds : Request(c, DescA)
  \/ \E c \in CallIds : DispatchReturns(c, CHOOSE r \in Responses : r.statusCode = 200)
  \/ \E c \in CallIds : DecodeReturns(c)

SpecAgent == InitAgent /\ [][NextAgent]_vars

(***************************************************************************)
(* Calls and pool operations: clients with and without an agent of the     *)
(* caller and with one request interceptor; getPoolStats() and close();    *)
(* calls made before and after close(), the agent answering or refusing    *)
(* the dispatch.                                                           *)
(***************************************************************************)
InitClose ==
  /\ options \in {[OptionsOf(<<[onRequest |-> TRUE, onError |-> FALSE]>>, <<>>)
                      EXCEPT !.agent = a] : a \in {None, Some(SuppliedAgent)}}
  /\ agent = createAgent(options)
  /\ requestInterceptors =
       IF IsSome(options.interceptors) THEN Get(options.interceptors).request ELSE <<>>
  /\ responseInterceptors =
       IF IsSome(options.interceptors) THEN Get(options.interceptors).response ELSE <<>>
  /\ pool = NewPool(options)
  /\ container = None
  /\ calls = [c \in CallIds |-> IdleCall]

NextClose ==
  \/ \E c \in CallIds : Request(c, DescA)
  \/ \E c \in CallIds : OnRequestReturns(c, DescD)
  \/ \E c \in CallIds : DispatchReturns(c, CHOOSE r \in Responses : r.statusCode = 200)
  \/ \E c \in CallIds : DispatchThrows(c, Err("network", 0))
  \/ \E c \in CallIds : DecodeReturns(c)
  \/ GetPoolStats
  \/ StatsChange
  \/ Close
  \/ AgentCloseSettles
  \/ CloseSettles

SpecClose == InitClose /\ [][NextClose]_vars

(***************************************************************************)
(* The observable of a call: from(promise) of the promise executeRequest   *)
(* returned when request() was invoked.                                    *)
(***************************************************************************)
\* a subscriber that was notified of nothing yet
NewSubscriber == [done |-> FALSE, next |-> None, error |-> None]

\* a variant of Subscribe for an observable that runs the executor when it
\* is subscribed
Subscribe_Cold(c) ==
  /\ calls[c].pc # "idle"
  /\ Len(calls[c].subs) < MaxSubs
  /\ Set(c, executeRequest([calls[c] EXCEPT !.subs = Append(@, NewSubscriber)],
                           Get(calls[c].config)))

\* subscribe() on the observable request() returned: the subscriber is
\* attached to the promise
Subscribe(c) ==
  /\ calls[c].pc # "idle"
  /\ Len(calls[c].subs) < MaxSubs
  /\ Set(c, [calls[c] EXCEPT !.subs = Append(@, NewSubscriber)])

\* the promise has settled: subscriber n is handed its value (next, then
\* complete) or its error (catchError rethrows the error it is given)
Deliver(c, n) ==
  /\ calls[c].pc \in {"complete", "failed"}
  /\ n \in 1..Len(calls[c].subs)
  /\ ~calls[c].subs[n].done
  /\ Set(c, [calls[c] EXCEPT !.subs[n] = [done |-> TRUE, next |-> calls[c].value,
                                          error |-> calls[c].thrown]])

(***************************************************************************)
(* The executor under the assumption that whatever it awaits settles: one  *)
(* call on every client of Init, each awaited hook, dispatch and decode    *)
(* returning or failing; the values handed back are fixed, the paths are   *)
(* all there.                                                              *)
(***************************************************************************)
\* the continuations of the executor: what runs when an awaited operation
\* settles
Settle(c) ==
  \/ OnRequestReturns(c, DescD)
  \/ OnRequestThrows(c)
  \/ ReqOnErrorReturns(c)
  \/ ReqOnErrorThrows(c)
  \/ \E r \in Responses : DispatchReturns(c, r)
  \/ DispatchThrows(c, Err("network", 0))
  \/ DecodeReturns(c)
  \/ DecodeThrows(c)
  \/ OnResponseReturns(c, EnvX)
  \/ OnResponseThrows(c)
  \/ RespOnErrorReturns(c)
  \/ RespOnErrorThrows(c)
  \/ BroadcastReturns(c)
  \/ BroadcastThrows(c)

NextLive == Request("c1", DescA) \/ Settle("c1")

\* every awaited operation eventually returns or fails
SpecLive == Init /\ [][NextLive]_vars /\ WF_vars(Settle("c1"))

\* the same call with subscribers of its observable
NextSub ==
  \/ NextLive
  \/ Subscribe("c1")
  \/ \E n \in 1..MaxSubs : Deliver("c1", n)

SpecSub == Init /\ [][NextSub]_vars

(***************************************************************************)
(* Two calls in flight on one client (as Promise.all over several          *)
(* request() in makeParallelRequests): the continuations of the two        *)
(* executors interleave at every await.                                    *)
(***************************************************************************)
\* the client of the concurrent calls: one request interceptor and one
\* response interceptor, each with both hooks
InitPar ==
  /\ options = OptionsOf(<<[onRequest |-> TRUE, onError |-> TRUE]>>,
                         <<[onResponse |-> TRUE, onError |-> TRUE]>>)
  /\ agent = createAgent(options)
  /\ requestInterceptors = Get(options.interceptors).request
  /\ responseInterceptors = Get(options.interceptors).response
  /\ pool = NewPool(options)
  /\ container = None
  /\ calls = [c \in CallIds |-> IdleCall]

\* what the callers and the hooks of the concurrent calls hand over, and
\* what the transport answers
ParDescriptors == {DescA, DescB, DescD}
ParResponses == {r \in Responses : ~r.body.fails}

StepPar(c) ==
  \/ \E config \in ParDescriptors : Request(c, config)
  \/ \E v \in ParDescriptors : OnRequestReturns(c, v)
  \/ OnRequestThrows(c)
  \/ ReqOnErrorReturns(c)
  \/ ReqOnErrorThrows(c)
  \/ \E r \in ParResponses : DispatchReturns(c, r)
  \/ \E e \in TransportErrors : DispatchThrows(c, e)
  \/ DecodeReturns(c)
  \/ DecodeThrows(c)
  \/ \E v \in Envelopes : OnResponseReturns(c, v)
  \/ OnResponseThrows(c)
  \/ RespOnErrorReturns(c)
  \/ RespOnErrorThrows(c)
  \/ BroadcastReturns(c)
  \/ BroadcastThrows(c)

NextPar == \E c \in CallIds : StepPar(c)

SpecPar == InitPar /\ [][NextPar]_vars

(***************************************************************************)
(* The request builder on its own: a client without interceptors, so that  *)
(* request(config) runs buildUrl, mergeHeaders and prepareRequestBody on   *)
(* the caller's descriptor and dispatches at once.                         *)
(***************************************************************************)
\* the base URLs and default headers a client is configured with
BuildBaseURLs == {None, Some(<<>>), Some(BaseURL)}
BuildDefaultHeaders ==
  {[k \in {} |-> ""], [X |-> "0", D |-> "d"], [k \in {"Content-Type"} |-> "text/d"]}

\* the URLs, query parameters, headers and payloads of a descriptor
BuildUrls ==
  {None, Some(<<"/", "u">>), Some(<<"u">>), Some(<<"h", "t", "t", "p", ":", "x">>),
   Some(<<"h", "t", "t", "p", "s", ":", "x">>), Some(<<"H", "T", "T", "P", ":", "x">>),
   Some(<<"h", "t", "t", "p", "x">>), Some(<<"/", "v", "?", "z">>),
   Some(<<"/", "p", "#", "a", "?">>)}
BuildParams ==
  {None, Some(<<>>),
   Some(<< << <<"q">>, <<"a", " ", "b">> >> >>),
   Some(<< << <<"b">>, <<"2">> >>, << <<"1">>, <<"x">> >> >>),
   Some(<< << <<"z">>, <<"1">> >>, << <<"a", "&">>, <<"=">> >> >>)}
BuildHeaders ==
  {[k \in {} |-> ""], [X |-> "1"], [k \in {"Content-Type"} |-> "text/c"],
   [k \in {"Content-Type"} |-> ""], [k \in {"content-type"} |-> "text/c"]}
BuildPayloads ==
  {DataUndefined, PlainObject(<< << <<"i", "d">>, NumVal(1) >> >>),
   BufferOf(<<7>>), FormDataOf(<<>>), StringOf(<<115>>),
   DataNull, NumberOf(0), BooleanOf(FALSE), StringOf(<<>>)}

BuildDescriptors ==
  [url : BuildUrls, method : {None}, headers : BuildHeaders, params : BuildParams,
   data : BuildPayloads, timeout : {None}, responseType : {None}]

\* constructor with no interceptors configured
InitBuild ==
  /\ \E base \in BuildBaseURLs, hdrs \in BuildDefaultHeaders :
       options = [OptionsOf(<<>>, <<>>) EXCEPT !.baseURL = base, !.headers = hdrs,
                                               !.interceptors = None]
  /\ agent = createAgent(options)
  /\ requestInterceptors =
       IF IsSome(options.interceptors) THEN Get(options.interceptors).request ELSE <<>>
  /\ responseInterceptors =
       IF IsSome(options.interceptors) THEN Get(options.interceptors).response ELSE <<>>
  /\ pool = NewPool(options)
  /\ container = None
  /\ calls = [c \in CallIds |-> IdleCall]

NextBuild == \E config \in BuildDescriptors : Request("c1", config)

SpecBuild == InitBuild /\ [][NextBuild]_vars

(***************************************************************************)
(* The response decoder on its own: a client without interceptors, calls   *)
(* that declare each response type, and transport responses of several     *)
(* status codes whose body is valid JSON, malformed, or unreadable.        *)
(***************************************************************************)
DecodeTypes ==
  {None, Some("json"), Some("text"), Some("arraybuffer"), Some("stream"), Some("blob")}
DecodeDescriptors == {[DescA EXCEPT !.responseType = t] : t \in DecodeTypes}
DecodeResponses ==
  [statusCode : {200, 201, 204, 404, 500}, headers : {[ct |-> "json"]},
   body : {Body("r1", TRUE, FALSE), Body("r2", FALSE, FALSE), Body("r3", TRUE, TRUE)}]

NextDecode ==
  \/ \E config \in DecodeDescriptors : Request("c1", config)
  \/ \E r \in DecodeResponses : DispatchReturns("c1", r)
  \/ DecodeReturns("c1")
  \/ DecodeThrows("c1")

SpecDecode == InitBuild /\ [][NextDecode]_vars

(***************************************************************************)
(* The facade on its own: each verb operation and request() itself on a    *)
(* client without interceptors, with per-call configs that are absent,     *)
(* that set url, method and data themselves, or that set neither.          *)
(***************************************************************************)
FacadeUrls == {<<"/", "u">>, <<"h", "t", "t", "p", "s", ":", "x">>}
FacadeData ==
  {DataUndefined, PlainObject(<< << <<"n">>, NumVal(2) >> >>), StringOf(<<115>>)}
FacadeConfigs ==
  {None, Some(DescB),
   Some([EmptyConfig EXCEPT !.headers = [X |-> "1"],
                            !.params = Some(<< << <<"q">>, <<"1">> >> >>)])}

NextFacade ==
  \/ \E config \in {DescA, DescB, DescD} : Request("c1", config)
  \/ \E url \in FacadeUrls, config \in FacadeConfigs : get("c1", url, config)
  \/ \E url \in FacadeUrls, data \in FacadeData, config \in FacadeConfigs :
       post("c1", url, data, config)
  \/ \E url \in FacadeUrls, data \in FacadeData, config \in FacadeConfigs :
       put("c1", url, data, config)
  \/ \E url \in FacadeUrls, config \in FacadeConfigs : delete("c1", url, config)
  \/ \E url \in FacadeUrls, data \in FacadeData, config \in FacadeConfigs :
       patch("c1", url, data, config)
  \/ \E url \in FacadeUrls, config \in FacadeConfigs : head("c1", url, config)

SpecFacade == InitBuild /\ [][NextFacade]_vars

(***************************************************************************)
(* HttpModule: the dynamic modules of the four registration operations     *)
(* and the injection of HTTP_MODULE_OPTIONS into the client.  A provider   *)
(* is {provide, useValue | useFactory + inject | useClass}; a class is     *)
(* named by its token.                                                     *)
(***************************************************************************)
Provider(provide, kind, use, inject) ==
  [provide |-> provide, kind |-> kind, use |-> use, inject |-> inject]

\* HttpService in a providers array: the class, with
\* @Inject(HTTP_MODULE_OPTIONS) on its constructor
HttpServiceProvider ==
  Provider("HttpService", "class", "HttpService", <<"HTTP_MODULE_OPTIONS">>)

\* private static createOptionsProvider(options)
createOptionsProvider(opts) == Provider("HTTP_MODULE_OPTIONS", "value", opts, <<>>)

\* private static createModuleIdProvider(); id is what randomStringGenerator()
\* returned
createModuleIdProvider(id) == Provider("HTTP_MODULE_ID", "value", id, <<>>)

\* private static createProviders(options)
createProviders(opts, id) ==
  <<createOptionsProvider(opts), HttpServiceProvider, createModuleIdProvider(id)>>

\* static register(options)
register(opts, id) ==
  [module |-> "HttpModule", imports |-> <<>>, providers |-> createProviders(opts, id),
   exports |-> <<"HttpService">>, global |-> None]

\* a variant of createFactoryProvider that drops the inject list
createFactoryProvider_NoInject(o) ==
  Provider("HTTP_MODULE_OPTIONS", "factory", Get(o.useFactory), <<>>)

\* private static createFactoryProvider(options)
createFactoryProvider(o) ==
  Provider("HTTP_MODULE_OPTIONS", "factory", Get(o.useFactory),
           IF IsSome(o.inject) THEN Get(o.inject) ELSE <<>>)

\* private static createClassProvider(options): the factory is
\* async (optionsFactory) => optionsFactory.createHttpOptions()
createClassProvider(o) ==
  Provider("HTTP_MODULE_OPTIONS", "factory",
           [fn |-> "createHttpOptions", returns |-> None],
           <<IF IsSome(o.useExisting) THEN Get(o.useExisting).name
             ELSE Get(o.useClass).name>>)

\* private static createAsyncOptionsProvider(options)
createAsyncOptionsProvider(o) ==
  IF IsSome(o.useFactory) THEN createFactoryProvider(o) ELSE createClassProvider(o)

\* private static shouldUseOptionsProviderOnly(options)
shouldUseOptionsProviderOnly(o) == IsSome(o.useExisting) \/ IsSome(o.useFactory)

\* private static createAsyncProviders(options)
createAsyncProviders(o) ==
  LET optionsProvider == createAsyncOptionsProvider(o)
  IN IF shouldUseOptionsProviderOnly(o) THEN <<optionsProvider>>
     ELSE <<optionsProvider,
            Provider(Get(o.useClass).name, "class", Get(o.useClass), <<>>)>>

\* static registerAsync(options)
registerAsync(o, id) ==
  [module |-> "HttpModule",
   imports |-> IF IsSome(o.imports) THEN Get(o.imports) ELSE <<>>,
   providers |-> createAsyncProviders(o)
                   \o <<HttpServiceProvider, Provider("HTTP_MODULE_ID", "value", id, <<>>)>>
                   \o (IF IsSome(o.extraProviders) THEN Get(o.extraProviders) ELSE <<>>),
   exports |-> <<"HttpService">>, global |-> None]

\* static forRoot(options)
forRoot(opts, id) == [register(opts, id) EXCEPT !.global = Some(TRUE)]

\* static forRootAsync(options)
forRootAsync(o, id) == [registerAsync(o, id) EXCEPT !.global = Some(TRUE)]

\* The container.  The providers a module can inject: its own, then those
\* its imported modules export.
VisibleProviders(m) ==
  m.providers \o
    Flatten([n \in 1..Len(m.imports) |->
               SelectSeq(m.imports[n].providers,
                         LAMBDA q : \E e \in 1..Len(m.imports[n].exports) :
                                      m.imports[n].exports[e] = q.provide)])

\* a factory function is called with the injected values: a user factory
\* returns its options or derives them from the injected configuration,
\* the factory of createClassProvider calls createHttpOptions() on the
\* injected instance; without the value they read, they throw
CallFactory(factory, args) ==
  CASE factory.fn = "const" -> factory.returns
    [] factory.fn = "fromConfig" ->
         IF Len(args) >= 1 /\ IsSome(args[1]) THEN args[1] ELSE None
    [] OTHER ->
         IF Len(args) >= 1 /\ IsSome(args[1])
         THEN Some(Get(args[1]).createHttpOptions) ELSE None

\* the value injected for a token: the useValue, the instance of the
\* class, or what the factory returns on the values of its inject list
RECURSIVE ResolveToken(_, _)
ResolveToken(m, token) ==
  LET visible == VisibleProviders(m)
      at == {n \in 1..Len(visible) : visible[n].provide = token}
  IN IF at = {} THEN None
     ELSE LET q == visible[CHOOSE n \in at : \A h \in at : n <= h]
          IN IF q.kind \in {"value", "class"} THEN Some(q.use)
             ELSE CallFactory(q.use, [n \in 1..Len(q.inject) |->
                                       ResolveToken(m, q.inject[n])])

\* the options the configuration patterns produce
ModuleOptions ==
  {[OptionsOf(<<>>, <<>>) EXCEPT !.interceptors = None],
   [OptionsOf(<<>>, <<>>) EXCEPT !.interceptors = None, !.timeout = Some(9)],
   [OptionsOf(<<>>, <<>>) EXCEPT !.interceptors = None, !.baseURL = None,
                                 !.headers = [k \in {} |-> ""]]}

\* new HttpService() without injected options: options = {}
EmptyOptions ==
  [OptionsOf(<<>>, <<>>) EXCEPT
     !.baseURL = None, !.headers = [k \in {} |-> ""], !.timeout = None,
     !.connections = None, !.interceptors = None]

\* the values randomStringGenerator() may return
ModuleIds == {"id1", "id2"}

Patterns == {"static", "factory", "injectedFactory", "class", "existing"}

\* the HttpModuleAsyncOptions of a pattern whose factory produces opts: a
\* plain factory, a factory of an injected configuration, an
\* options-factory class, an options-factory instance registered by an
\* imported module
AsyncOptionsOf(pattern, opts) ==
  LET ConfigService == [name |-> "ConfigService", createHttpOptions |-> opts]
      ConfigModule ==
        [module |-> "ConfigModule", imports |-> <<>>,
         providers |-> <<Provider("CONFIG", "value", opts, <<>>),
                         Provider("ConfigService", "class", ConfigService, <<>>)>>,
         exports |-> <<"CONFIG", "ConfigService">>, global |-> None]
      none == [imports |-> None, useFactory |-> None, inject |-> None,
               useClass |-> None, useExisting |-> None, extraProviders |-> None]
  IN CASE pattern = "factory" ->
            [none EXCEPT !.useFactory = Some([fn |-> "const", returns |-> Some(opts)])]
       [] pattern = "injectedFactory" ->
            [none EXCEPT !.imports = Some(<<ConfigModule>>),
                         !.useFactory = Some([fn |-> "fromConfig", returns |-> None]),
                         !.inject = Some(<<"CONFIG">>)]
       [] pattern = "class" -> [none EXCEPT !.useClass = Some(ConfigService)]
       [] OTHER ->
            [none EXCEPT !.imports = Some(<<ConfigModule>>),
                         !.useExisting = Some(ConfigService)]

\* the dynamic module of a pattern, registered globally or not
DynamicModuleOf(pattern, opts, id, root) ==
  IF pattern = "static"
  THEN IF root THEN forRoot(opts, id) ELSE register(opts, id)
  ELSE IF root THEN forRootAsync(AsyncOptionsOf(pattern, opts), id)
       ELSE registerAsync(AsyncOptionsOf(pattern, opts), id)

\* the container instantiates HttpService with the value it resolves for
\* HTTP_MODULE_OPTIONS
InitModule ==
  /\ \E pattern \in Patterns, opts \in ModuleOptions, id \in ModuleIds,
        root \in BOOLEAN :
       container = Some([pattern |-> pattern, produced |-> opts, id |-> id,
                         root |-> root,
                         module |-> DynamicModuleOf(pattern, opts, id, root)])
  /\ options = LET injected == ResolveToken(Get(container).module, "HTTP_MODULE_OPTIONS")
               IN IF IsSome(injected) THEN Get(injected) ELSE EmptyOptions
  /\ agent = createAgent(options)
  /\ requestInterceptors =
       IF IsSome(options.interceptors) THEN Get(options.interceptors).request ELSE <<>>
  /\ responseInterceptors =
       IF IsSome(options.interceptors) THEN Get(options.interceptors).response ELSE <<>>
  /\ pool = NewPool(options)
  /\ calls = [c \in CallIds |-> IdleCall]

NextModule ==
  \/ Request("c1", DescA)
  \/ \E r \in ParResponses : DispatchReturns("c1", r)
  \/ DecodeReturns("c1")

SpecModule == InitModule /\ [][NextModule]_vars

(***************************************************************************)
(* Reading the history of a call                                           *)
(***************************************************************************)
LogOf(c) == calls[c].log

\* positions of the events of operation op in phase ph
Pos(c, op, ph) == calls[c].at[op][ph]

\* positions of the invocations of the onError hooks of a list
ErrCalls(c, list) ==
  {j \in Pos(c, "onError", "call") : LogOf(c)[j].list = list}

Max(S) == CHOOSE x \in S : \A y \in S : y <= x
Min(S) == CHOOSE x \in S : \A y \in S : x <= y

\* every throw of the history
Throws(c) ==
  Pos(c, "onRequest", "throw") \cup Pos(c, "prepare", "throw")
    \cup Pos(c, "dispatch", "throw") \cup Pos(c, "decode", "throw")
    \cup Pos(c, "onResponse", "throw") \cup Pos(c, "onError", "throw")
\* the throws of error-notification hooks
HookThrows(c) == Pos(c, "onError", "throw")

Settled(c) == calls[c].pc \in {"complete", "failed"}

\* the value the request chain has produced so far: the last onRequest
\* return, the call's own descriptor when no hook has returned
LastRequestValue(c) ==
  IF Pos(c, "onRequest", "return") = {} THEN calls[c].config
  ELSE LogOf(c)[Max(Pos(c, "onRequest", "return"))].val

\* the invocations at the positions P are those of the hooks of a list in
\* registration order: none skipped, none twice, only where the hook exists
InRegistrationOrder(c, P, list, hook) ==
  \A j \in P :
    LET k == LogOf(c)[j].k
    IN /\ k \in 1..Len(list) /\ list[k][hook]
       /\ \A m \in 1..(k - 1) :
            list[m][hook] => \E h \in P : h < j /\ LogOf(c)[h].k = m
       /\ \A h \in P : h < j => LogOf(c)[h].k < k

\* every interceptor of the list that has the hook was invoked at one of P
AllInvoked(c, P, list, hook) ==
  \A k \in 1..Len(list) :
    list[k][hook] => \E j \in P : LogOf(c)[j].k = k

C1_DispatchedFrom(c, d) ==
  LET sent == Get(calls[c].sent)
      headers == mergeHeaders(options, d)
      prep == prepareRequestBody(d, headers)
  IN /\ sent.url = buildUrl(options, d)
     /\ sent.opts.headers = prep.headers
     /\ sent.opts.body = prep.body
     /\ sent.opts.method = (IF IsSome(d.method) THEN Get(d.method) ELSE DEFAULT_METHOD)
     /\ sent.opts.bodyTimeout =
          (IF IsSome(d.timeout) /\ Get(d.timeout) # 0 THEN d.timeout ELSE options.timeout)
     /\ \A j \in Pos(c, "decode", "return") :
          Get(LogOf(c)[j].val).form = ParserOf(d)

(***************************************************************************)
(* C1: the onRequest hooks run in registration order, the first on the     *)
(* call's descriptor and each later one on the value the previous hook     *)
(* returned; the URL, headers, body, method, timeout and response type of  *)
(* the dispatch are those of the value the last hook returned.             *)
(***************************************************************************)
C1_RequestChain ==
  \A c \in CallIds :
    /\ InRegistrationOrder(c, Pos(c, "onRequest", "call"),
                           requestInterceptors, "onRequest")
    /\ \A j \in Pos(c, "onRequest", "call") :
         LET before == {r \in Pos(c, "onRequest", "return") : r < j}
         IN LogOf(c)[j].val =
              (IF before = {} THEN calls[c].config ELSE LogOf(c)[Max(before)].val)
    /\ IsSome(calls[c].sent) =>
         /\ AllInvoked(c, Pos(c, "onRequest", "return"),
                       requestInterceptors, "onRequest")
         /\ C1_DispatchedFrom(c, Get(LastRequestValue(c)))

\* two hooks ran, each changed the descriptor, and the call was dispatched
C1_Witness ==
  /\ calls["c1"].pc = "dispatch"
  /\ calls["c1"].config = Some(DescA)
  /\ Cardinality(Pos("c1", "onRequest", "return")) = 2
  /\ LogOf("c1")[Min(Pos("c1", "onRequest", "return"))].val = Some(DescC)
  /\ LastRequestValue("c1") = Some(DescB)

C2_ShortCircuit(c, j) ==
  /\ \A h \in Pos(c, "onRequest", "call") : h < j
  /\ Pos(c, "dispatch", "call") = {}
  /\ calls[c].pc \in {"reqOnError", "failed"}
  /\ calls[c].value = None

(***************************************************************************)
(* C2 (as stated): when the onRequest hook of interceptor k fails, no      *)
(* later onRequest hook runs, the transport is never invoked, and the call *)
(* fails with the error k's onRequest raised.                              *)
(***************************************************************************)
C2_Original ==
  \A c \in CallIds : \A j \in Pos(c, "onRequest", "throw") :
    /\ C2_ShortCircuit(c, j)
    /\ Settled(c) => calls[c].thrown = LogOf(c)[j].val

(***************************************************************************)
(* C2 (amended): ... and the call fails with the error k's onRequest       *)
(* raised, unless k's own onError hook fails itself: then the call fails   *)
(* with the error that onError hook raised.                                *)
(***************************************************************************)
C2_Amended ==
  \A c \in CallIds : \A j \in Pos(c, "onRequest", "throw") :
    /\ C2_ShortCircuit(c, j)
    /\ Settled(c) =>
         calls[c].thrown =
           (IF HookThrows(c) = {} THEN LogOf(c)[j].val
            ELSE LogOf(c)[Max(HookThrows(c))].val)

\* the first interceptor's onRequest failed, the second interceptor has an
\* onRequest hook too, and the call has failed with the first one's error
C2_Witness ==
  /\ calls["c1"].pc = "failed"
  /\ \E j \in Pos("c1", "onRequest", "throw") :
       /\ LogOf("c1")[j].k = 1
       /\ calls["c1"].thrown = LogOf("c1")[j].val
  /\ requestInterceptors[2].onRequest

(***************************************************************************)
(* C3: when the onRequest hook of interceptor k fails, the only error hook *)
(* invoked in the call is k's own onError (if it has one), once and with   *)
(* that failure.                                                           *)
(***************************************************************************)
C3_OnlyOwnOnError ==
  \A c \in CallIds : \A j \in Pos(c, "onRequest", "throw") :
    LET k == LogOf(c)[j].k
    IN /\ ErrCalls(c, "response") = {}
       /\ \A h \in ErrCalls(c, "request") :
            /\ LogOf(c)[h].k = k
            /\ LogOf(c)[h].val = LogOf(c)[j].val
            /\ h > j
       /\ Cardinality(ErrCalls(c, "request")) =
            (IF requestInterceptors[k].onError THEN 1 ELSE 0)

\* the failing interceptor has an onError hook, so have another request
\* interceptor and a response interceptor, and the call has failed
C3_Witness ==
  /\ calls["c1"].pc = "failed"
  /\ \E j \in Pos("c1", "onRequest", "throw") :
       /\ requestInterceptors[LogOf("c1")[j].k].onError
       /\ \E m \in 1..Len(requestInterceptors) :
            m # LogOf("c1")[j].k /\ requestInterceptors[m].onError
  /\ \E m \in 1..Len(responseInterceptors) : responseInterceptors[m].onError
  /\ Cardinality(ErrCalls("c1", "request")) = 1

C4_Notified(c, e) ==
  /\ InRegistrationOrder(c, ErrCalls(c, "response"), responseInterceptors, "onError")
  /\ \A h \in ErrCalls(c, "response") : LogOf(c)[h].val = e
  /\ ErrCalls(c, "request") = {}

(***************************************************************************)
(* C4 (as stated): when the dispatch fails, every response interceptor     *)
(* with an onError hook is invoked with that failure exactly once, in      *)
(* registration order, before the call rejects with the transport error.   *)
(***************************************************************************)
C4_Original ==
  \A c \in CallIds : \A j \in Pos(c, "dispatch", "throw") :
    /\ C4_Notified(c, LogOf(c)[j].val)
    /\ Settled(c) =>
         /\ AllInvoked(c, ErrCalls(c, "response"), responseInterceptors, "onError")
         /\ calls[c].thrown = LogOf(c)[j].val

(***************************************************************************)
(* C4 (amended): when the dispatch fails, the response interceptors with   *)
(* an onError hook are invoked with that failure in registration order,    *)
(* each at most once, up to and including the first whose onError hook     *)
(* fails itself.  When no onError hook fails, every one of them has been   *)
(* invoked exactly once before the call rejects with the transport error;  *)
(* when one fails, no later one is invoked and the call rejects with the   *)
(* error that hook raised.                                                 *)
(***************************************************************************)
C4_Amended ==
  \A c \in CallIds : \A j \in Pos(c, "dispatch", "throw") :
    /\ C4_Notified(c, LogOf(c)[j].val)
    /\ \A h \in HookThrows(c) : \A g \in ErrCalls(c, "response") : g < h
    /\ Settled(c) =>
         IF HookThrows(c) = {}
         THEN /\ AllInvoked(c, ErrCalls(c, "response"), responseInterceptors, "onError")
              /\ calls[c].thrown = LogOf(c)[j].val
         ELSE calls[c].thrown = LogOf(c)[Max(HookThrows(c))].val

\* the dispatch failed, both response interceptors were notified and the
\* call has failed with the transport error
C4_Witness ==
  /\ calls["c1"].pc = "failed"
  /\ \E j \in Pos("c1", "dispatch", "throw") :
       calls["c1"].thrown = LogOf("c1")[j].val
  /\ Cardinality(ErrCalls("c1", "response")) = 2

(***************************************************************************)
(* C5 (as stated): when the onResponse hook of interceptor k fails, only   *)
(* k's own onError hook is notified, exactly once; no other response       *)
(* interceptor's onError is invoked in that call.                          *)
(***************************************************************************)
C5_Original ==
  \A c \in CallIds : \A j \in Pos(c, "onResponse", "throw") :
    /\ \A h \in ErrCalls(c, "response") : LogOf(c)[h].k = LogOf(c)[j].k
    /\ Cardinality(ErrCalls(c, "response")) <= 1

C6_ShortCircuit(c, j) ==
  /\ \A h \in Pos(c, "onResponse", "call") : h < j
  /\ calls[c].pc \in {"respOnError", "broadcast", "failed"}
  /\ calls[c].value = None

(***************************************************************************)
(* C6 (as stated): when the onResponse hook of interceptor k fails, no     *)
(* later onResponse hook runs and the call fails with the error k's        *)
(* onResponse raised instead of returning an envelope.                     *)
(***************************************************************************)
C6_Original ==
  \A c \in CallIds : \A j \in Pos(c, "onResponse", "throw") :
    /\ C6_ShortCircuit(c, j)
    /\ Settled(c) => calls[c].thrown = LogOf(c)[j].val

(***************************************************************************)
(* C6 (amended): ... no later onResponse hook runs and the call fails      *)
(* instead of returning an envelope: with the error k's onResponse raised  *)
(* when no onError hook fails in that call, otherwise with the error       *)
(* raised by the last onError hook that failed.                            *)
(***************************************************************************)
C6_Amended ==
  \A c \in CallIds : \A j \in Pos(c, "onResponse", "throw") :
    /\ C6_ShortCircuit(c, j)
    /\ Settled(c) =>
         calls[c].thrown =
           (IF HookThrows(c) = {} THEN LogOf(c)[j].val
            ELSE LogOf(c)[Max(HookThrows(c))].val)

\* the first interceptor's onResponse failed, the second interceptor has an
\* onResponse hook too, and the call has failed with the first one's error
C6_Witness ==
  /\ calls["c1"].pc = "failed"
  /\ \E j \in Pos("c1", "onResponse", "throw") :
       /\ LogOf("c1")[j].k = 1
       /\ calls["c1"].thrown = LogOf("c1")[j].val
  /\ responseInterceptors[2].onResponse

\* the envelope decoded from the response of the call
DecodedEnvelope(c) ==
  Some(createHttpResponse(
         Get(calls[c].response),
         ParsedData(Get(calls[c].response), Get(LastRequestValue(c)))))

LastResponseValue(c) ==
  IF Pos(c, "onResponse", "return") = {} THEN DecodedEnvelope(c)
  ELSE LogOf(c)[Max(Pos(c, "onResponse", "return"))].val

(***************************************************************************)
(* C7: after a successful dispatch and decode the onResponse hooks run in  *)
(* registration order, the first on the decoded envelope and each later    *)
(* one on the value the previous hook returned; the caller gets the value  *)
(* the last hook returned (the decoded envelope when there is no hook).    *)
(***************************************************************************)
C7_ResponseChain ==
  \A c \in CallIds :
    /\ InRegistrationOrder(c, Pos(c, "onResponse", "call"),
                           responseInterceptors, "onResponse")
    /\ \A j \in Pos(c, "onResponse", "call") :
         LET before == {r \in Pos(c, "onResponse", "return") : r < j}
         IN LogOf(c)[j].val =
              (IF before = {} THEN DecodedEnvelope(c) ELSE LogOf(c)[Max(before)].val)
    /\ calls[c].pc = "complete" =>
         /\ AllInvoked(c, Pos(c, "onResponse", "return"),
                       responseInterceptors, "onResponse")
         /\ calls[c].value = LastResponseValue(c)

\* two onResponse hooks ran, each replaced the envelope, and the caller got
\* the second one's value
C7_Witness ==
  /\ calls["c1"].pc = "complete"
  /\ Cardinality(Pos("c1", "onResponse", "return")) = 2
  /\ LogOf("c1")[Min(Pos("c1", "onResponse", "return"))].val = Some(EnvY)
  /\ calls["c1"].value = Some(EnvX)

C8_OneOutcome(c) ==
  /\ ~Settled(c) => calls[c].value = None /\ calls[c].thrown = None
  /\ calls[c].pc = "complete" =>
       /\ calls[c].thrown = None /\ Throws(c) = {}
       /\ IsSome(calls[c].value)
       /\ DOMAIN Get(calls[c].value) = {"data", "status", "statusText", "headers"}
  /\ calls[c].pc = "failed" =>
       calls[c].value = None /\ IsSome(calls[c].thrown) /\ Throws(c) # {}

(***************************************************************************)
(* C8 (as stated): a call ends either with an envelope or with a failure   *)
(* that carries the error that first occurred in the call, whatever the    *)
(* error-notification hooks do; a transport failure reaches the caller as  *)
(* the very error the transport raised.                                    *)
(***************************************************************************)
C8_Original ==
  \A c \in CallIds :
    /\ C8_OneOutcome(c)
    /\ calls[c].pc = "failed" => calls[c].thrown = LogOf(c)[Min(Throws(c))].val

(***************************************************************************)
(* C8 (amended): a call ends either with an envelope or with a failure;    *)
(* the failure carries the error that first occurred in the call when no   *)
(* error-notification hook fails, and the error raised by the last         *)
(* error-notification hook that failed otherwise.                          *)
(***************************************************************************)
C8_Amended ==
  \A c \in CallIds :
    /\ C8_OneOutcome(c)
    /\ calls[c].pc = "failed" =>
         calls[c].thrown =
           (IF HookThrows(c) = {} THEN LogOf(c)[Min(Throws(c))].val
            ELSE LogOf(c)[Max(HookThrows(c))].val)

\* the transport failed, an onError hook was notified and returned, and the
\* caller observes the transport's error
C8_Witness ==
  /\ calls["c1"].pc = "failed"
  /\ \E j \in Pos("c1", "dispatch", "throw") :
       calls["c1"].thrown = LogOf("c1")[j].val
  /\ \E j \in Pos("c1", "onError", "return") : TRUE
  /\ HookThrows("c1") = {}

RequestChainDone(c) ==
  /\ calls[c].pc \notin {"idle", "onRequest", "reqOnError"}
  /\ Pos(c, "onRequest", "throw") = {}

Phases == {"onRequest", "dispatch", "decode", "onResponse"}

\* the event before an invocation is the return of the operation whose
\* result it uses
C10_Uses(c, op, needs) ==
  \A j \in Pos(c, op, "call") :
    j > 1 /\ LogOf(c)[j - 1].ph = "return" /\ LogOf(c)[j - 1].op \in needs

\* every event of operation op, whatever its phase
Events(c, op) == Pos(c, op, "call") \cup Pos(c, op, "return") \cup Pos(c, op, "throw")

\* every position of A precedes every position of B
Before(A, B) == \A a \in A : \A b \in B : a < b

\* the order of the events in the history of every call
C10_Order ==
  \A c \in CallIds :
    /\ LET R == Events(c, "onRequest")
           D == Events(c, "dispatch")
           P == Events(c, "decode")
           S == Events(c, "onResponse")
       IN /\ Before(R, D) /\ Before(R, P) /\ Before(R, S)
          /\ Before(D, P) /\ Before(D, S) /\ Before(P, S)
    /\ \A j \in Pos(c, "dispatch", "call") :
         j = 1 \/ (LogOf(c)[j - 1].op = "onRequest" /\ LogOf(c)[j - 1].ph = "return")
    /\ C10_Uses(c, "decode", {"dispatch"})
    /\ C10_Uses(c, "onResponse", {"decode", "onResponse"})
    /\ Throws(c) # {} =>
         \A op \in Phases : \A h \in Pos(c, op, "call") : h < Min(Throws(c))
    /\ calls[c].pc = "complete" =>
         /\ Throws(c) = {}
         /\ LogOf(c)[Len(LogOf(c))].ph = "return"
         /\ LogOf(c)[Len(LogOf(c))].op \in {"decode", "onResponse"}
    /\ calls[c].pc = "failed" => Throws(c) # {}

(***************************************************************************)
(* C10: the phases of a call occur in the order request interceptors,      *)
(* dispatch, decode, response interceptors, completion: the dispatch       *)
(* starts after the last onRequest hook returned, the decode after the     *)
(* dispatch returned a response, the first onResponse hook after the       *)
(* decode produced the envelope; once an error was raised no further       *)
(* phase starts, and a failed call stays as it is.  (C10_Order holds       *)
(* initially and after every step, and no step changes a settled call.)    *)
(***************************************************************************)
C10_PhaseOrder ==
  /\ C10_Order
  /\ [][/\ C10_Order'
        /\ \A c \in CallIds :
             calls[c].pc \in {"failed", "complete"} => calls'[c] = calls[c]]_vars

\* a call went through every phase: two onRequest hooks, the dispatch, the
\* decode, two onResponse hooks, completion
C10_Witness ==
  /\ calls["c1"].pc = "complete"
  /\ Cardinality(Pos("c1", "onRequest", "return")) = 2
  /\ Cardinality(Pos("c1", "onResponse", "return")) = 2

C11_Notified(c, e) ==
  /\ InRegistrationOrder(c, ErrCalls(c, "response"), responseInterceptors, "onError")
  /\ \A h \in ErrCalls(c, "response") : LogOf(c)[h].val = e
  /\ Pos(c, "onResponse", "call") = {}
  /\ calls[c].value = None

(***************************************************************************)
(* C11 (as stated): when the parser of the declared response type fails,   *)
(* every response interceptor with an onError hook is notified of the      *)
(* decode error in registration order, no onResponse hook is invoked, and  *)
(* the call fails with the decode error.                                   *)
(***************************************************************************)
C11_Original ==
  \A c \in CallIds : \A j \in Pos(c, "decode", "throw") :
    /\ C11_Notified(c, LogOf(c)[j].val)
    /\ Settled(c) =>
         /\ AllInvoked(c, ErrCalls(c, "response"), responseInterceptors, "onError")
         /\ calls[c].thrown = LogOf(c)[j].val

(***************************************************************************)
(* C11 (amended): when the parser of the declared response type fails, no  *)
(* onResponse hook is invoked and the response interceptors with an        *)
(* onError hook are notified of the decode error in registration order up  *)
(* to and including the first whose onError hook fails itself.  When none  *)
(* fails, all of them have been notified and the call fails with the       *)
(* decode error; when one fails, the call fails with that hook's error.    *)
(***************************************************************************)
C11_Amended ==
  \A c \in CallIds : \A j \in Pos(c, "decode", "throw") :
    /\ C11_Notified(c, LogOf(c)[j].val)
    /\ \A h \in HookThrows(c) : \A g \in ErrCalls(c, "response") : g < h
    /\ Settled(c) =>
         IF HookThrows(c) = {}
         THEN /\ AllInvoked(c, ErrCalls(c, "response"), responseInterceptors, "onError")
              /\ calls[c].pc = "failed"
              /\ calls[c].thrown = LogOf(c)[j].val
         ELSE calls[c].thrown = LogOf(c)[Max(HookThrows(c))].val

\* json() rejected on a malformed body, both response interceptors were
\* notified of the decode error, and the call has failed with it
C11_Witness ==
  /\ calls["c1"].pc = "failed"
  /\ \E j \in Pos("c1", "decode", "throw") :
       /\ LogOf("c1")[j].val = Some(DecodeError)
       /\ calls["c1"].thrown = Some(DecodeError)
  /\ Cardinality(ErrCalls("c1", "response")) = 2
  /\ \E k \in 1..NResp : responseInterceptors[k].onResponse

\* in the history of call c no operation is invoked while another one is
\* pending: the event after an invocation is that operation settling
C12_Sequential(c) ==
  \A j \in 1..(Len(LogOf(c)) - 1) :
    LogOf(c)[j].ph = "call" =>
      /\ LogOf(c)[j + 1].ph # "call"
      /\ LogOf(c)[j + 1].op = LogOf(c)[j].op
      /\ LogOf(c)[j + 1].k = LogOf(c)[j].k

\* one value flows through the hooks op of call c: every hook is invoked
\* with what the previous one returned, the first with the value first
C12_OneValue(c, op, first) ==
  \A j \in Pos(c, op, "call") :
    LET before == {r \in Pos(c, op, "return") : r < j}
    IN LogOf(c)[j].val = (IF before = {} THEN first ELSE LogOf(c)[Max(before)].val)

\* what call c dispatched and delivered is determined by its own history
C12_Own(c) ==
  /\ C12_Sequential(c)
  /\ C12_OneValue(c, "onRequest", calls[c].config)
  /\ IsSome(calls[c].sent) => C1_DispatchedFrom(c, Get(LastRequestValue(c)))
  /\ Pos(c, "onResponse", "call") # {} =>
       C12_OneValue(c, "onResponse", DecodedEnvelope(c))
  /\ \A j \in Pos(c, "decode", "call") :
       LogOf(c)[j].val = calls[c].response /\ LogOf(c)[j - 1].val = calls[c].response
  /\ calls[c].pc = "complete" => calls[c].value = LastResponseValue(c)
  /\ calls[c].pc = "failed" =>
       calls[c].thrown =
         (IF HookThrows(c) = {} THEN LogOf(c)[Min(Throws(c))].val
          ELSE LogOf(c)[Max(HookThrows(c))].val)

\* a step is a step of one call: it changes neither the other call nor
\* the client
C12_OneCall ==
  /\ service' = service
  /\ \E c \in CallIds : \A d \in CallIds \ {c} : calls'[d] = calls[d]

(***************************************************************************)
(* C12: with two calls in flight on one client, under every interleaving   *)
(* of their continuations: the hooks of one call are never active at the   *)
(* same time, one descriptor flows through each call's request chain and   *)
(* one envelope through its response chain, and what a call dispatches     *)
(* and delivers is determined by its own descriptor, hook results and      *)
(* transport response; no step of one call changes the other call.         *)
(***************************************************************************)
C12_Independent ==
  /\ [](\A c \in CallIds : C12_Own(c))
  /\ [][C12_OneCall]_vars

\* both calls are in flight, in different phases and with different
\* descriptors: one awaits a response hook, the other the transport
C12_Witness ==
  /\ calls["c1"].pc = "onResponse"
  /\ calls["c2"].pc = "dispatch"
  /\ calls["c1"].finalConfig # calls["c2"].finalConfig
  /\ Pos("c2", "onRequest", "return") # {}

TimeoutError == Err("timeout", 0)

\* the timeout of the dispatch is the descriptor's own when it gives one,
\* the client's default otherwise
C13_TimeoutHandedOver(c) ==
  IsSome(calls[c].sent) =>
    LET d == Get(LastRequestValue(c))
    IN Get(calls[c].sent).opts.bodyTimeout =
         (IF IsSome(d.timeout) THEN d.timeout ELSE options.timeout)

\* the expiry of the timeout is broadcast to the onError hooks of the
\* response interceptors and the call fails with the timeout error
C13_ExpiryBroadcast(c) ==
  \A j \in Pos(c, "dispatch", "throw") :
    LogOf(c)[j].val = Some(TimeoutError) =>
      /\ C4_Notified(c, Some(TimeoutError))
      /\ Settled(c) =>
           /\ AllInvoked(c, ErrCalls(c, "response"), responseInterceptors, "onError")
           /\ calls[c].thrown = Some(TimeoutError)

(***************************************************************************)
(* C13 (as stated): the timeout handed to the transport is the call's own  *)
(* timeout when the descriptor gives one and the client's default          *)
(* otherwise; when it expires the call fails with the transport's timeout  *)
(* error after the broadcast to the response interceptors' onError hooks.  *)
(***************************************************************************)
C13_Original ==
  \A c \in CallIds : C13_TimeoutHandedOver(c) /\ C13_ExpiryBroadcast(c)

(***************************************************************************)
(* Reading a dispatched request                                            *)
(***************************************************************************)
\* the descriptor the request of call c was built from
BuiltFrom(c) == Get(LastRequestValue(c))
PathOf(d) == IF IsSome(d.url) THEN Get(d.url) ELSE <<>>

\* RFC 3986: a URL starts with a scheme when a ":" follows one or more
\* letters (of either case)
Letters ==
  {"a", "b", "h", "p", "s", "t", "u", "v", "w", "x", "z", "H", "P", "S", "T"}
HasScheme(url) ==
  \E n \in 2..Len(url) :
    url[n] = ":" /\ \A j \in 1..(n - 1) : url[j] \in Letters

\* the URL of the dispatch without the query string appended for the
\* descriptor's query parameters
UrlBeforeQuery(c) ==
  LET u == Get(calls[c].sent).url
      d == BuiltFrom(c)
  IN IF IsSome(d.params)
     THEN SubSeq(u, 1, Len(u) - Len(URLSearchParamsToString(Get(d.params))) - 1)
     ELSE u

(***************************************************************************)
(* C14 (as stated): with a base URL B configured, for every relative path  *)
(* P that does not start with a scheme the URL dispatched, before any      *)
(* query string, is B followed by P, with nothing inserted or removed.     *)
(***************************************************************************)
C14_Original ==
  \A c \in CallIds :
    (IsSome(calls[c].sent) /\ IsSome(options.baseURL)
       /\ ~HasScheme(PathOf(BuiltFrom(c)))) =>
      UrlBeforeQuery(c) = Get(options.baseURL) \o PathOf(BuiltFrom(c))

(***************************************************************************)
(* C15 (as stated): for every absolute URL P (one that starts with a       *)
(* scheme) the URL dispatched, before any query string, is P whatever base *)
(* URL is configured; with no base URL configured every URL is dispatched  *)
(* verbatim.                                                               *)
(***************************************************************************)
C15_Original ==
  \A c \in CallIds :
    (IsSome(calls[c].sent)
       /\ (HasScheme(PathOf(BuiltFrom(c))) \/ ~IsSome(options.baseURL))) =>
      UrlBeforeQuery(c) = PathOf(BuiltFrom(c))

\* the pieces of s between the occurrences of the character ch
RECURSIVE Split(_, _)
Split(s, ch) ==
  IF ~Includes(s, ch) THEN <<s>>
  ELSE LET n == CHOOSE j \in 1..Len(s) : s[j] = ch /\ \A h \in 1..(j - 1) : s[h] # ch
       IN <<SubSeq(s, 1, n - 1)>> \o Split(SubSeq(s, n + 1, Len(s)), ch)

\* decoding of application/x-www-form-urlencoded text
PercentDecoded(hi, lo) ==
  CASE hi = "2" /\ lo = "6" -> "&"
    [] hi = "3" /\ lo = "D" -> "="
    [] hi = "3" /\ lo = "F" -> "?"
    [] hi = "2" /\ lo = "F" -> "/"
    [] hi = "2" /\ lo = "3" -> "#"
    [] OTHER -> "~"
RECURSIVE FormDecode(_)
FormDecode(s) ==
  IF s = <<>> THEN <<>>
  ELSE IF s[1] = "+" THEN <<" ">> \o FormDecode(Tail(s))
  ELSE IF s[1] = "%" /\ Len(s) >= 3
  THEN <<PercentDecoded(s[2], s[3])>> \o FormDecode(SubSeq(s, 4, Len(s)))
  ELSE <<s[1]>> \o FormDecode(Tail(s))

\* the <<key, value>> pairs a query string is read as
PairsOf(q) ==
  IF q = <<>> THEN <<>>
  ELSE LET parts == Split(q, "&")
       IN [j \in 1..Len(parts) |->
             LET kv == Split(parts[j], "=")
             IN <<FormDecode(kv[1]),
                  IF Len(kv) > 1 THEN FormDecode(Join(Tail(kv), <<"=">>)) ELSE <<>> >>]

\* RFC 3986: the query component of a URL, between the first "?" and the
\* fragment; the "?" must come before any "#"
WithoutFragment(url) == Head(Split(url, "#"))
HasQuery(url) == Includes(WithoutFragment(url), "?")
QueryOf(url) ==
  IF HasQuery(url) THEN Join(Tail(Split(WithoutFragment(url), "?")), <<"?">>) ELSE <<>>

\* the URL the query parameters are appended to
ResolvedUrl(c) ==
  IF shouldPrependBaseUrl(options, PathOf(BuiltFrom(c)))
  THEN Get(options.baseURL) \o PathOf(BuiltFrom(c))
  ELSE PathOf(BuiltFrom(c))

\* what the dispatched URL has after the resolved URL and one separator
AppendedQuery(c) ==
  LET u == Get(calls[c].sent).url
  IN SubSeq(u, Len(ResolvedUrl(c)) + 2, Len(u))

\* the integer an index key stands for
IndexOf(key) == CHOOSE n \in 0..9 : key = <<Digit(n)>>

\* call c was dispatched with query parameters
WithParams(c) == IsSome(calls[c].sent) /\ IsSome(BuiltFrom(c).params)

C17_AppendedWith(c, sep) ==
  Get(calls[c].sent).url =
    ResolvedUrl(c) \o sep \o URLSearchParamsToString(Get(BuiltFrom(c).params))

(***************************************************************************)
(* C17 (as stated): query parameters, when present, are appended to the    *)
(* resolved URL with "?" if the URL has no query component yet and with    *)
(* "&" otherwise; without query parameters the resolved URL is dispatched  *)
(* unchanged.                                                              *)
(***************************************************************************)
C17_Original ==
  \A c \in CallIds :
    IsSome(calls[c].sent) =>
      IF IsSome(BuiltFrom(c).params)
      THEN C17_AppendedWith(c, IF HasQuery(ResolvedUrl(c)) THEN <<"&">> ELSE <<"?">>)
      ELSE Get(calls[c].sent).url = ResolvedUrl(c)

(***************************************************************************)
(* C17 (amended): query parameters, when present, are appended to the      *)
(* resolved URL with "&" if the URL contains the character "?" anywhere    *)
(* (also inside a fragment) and with "?" otherwise; without query          *)
(* parameters the resolved URL is dispatched unchanged.                    *)
(***************************************************************************)
C17_Amended ==
  \A c \in CallIds :
    IsSome(calls[c].sent) =>
      IF IsSome(BuiltFrom(c).params)
      THEN C17_AppendedWith(c, IF Includes(ResolvedUrl(c), "?") THEN <<"&">> ELSE <<"?">>)
      ELSE Get(calls[c].sent).url = ResolvedUrl(c)

\* the parameters {q: "a b"} were appended with "&" to a URL that has a
\* query of its own
C17_Witness ==
  /\ WithParams("c1")
  /\ Get(calls["c1"].sent).url =
       BaseURL \o <<"/", "v", "?", "z", "&", "q", "=", "a", "+", "b">>

(***************************************************************************)
(* C18: the headers dispatched are the key-wise union of the client's      *)
(* default headers D and the call's headers C, with C's value for every    *)
(* key that both have; the only other header there may be is a             *)
(* Content-Type that the body preparation added (in place of none or of    *)
(* an empty one).                                                          *)
(***************************************************************************)
C18_HeaderMerge ==
  \A c \in CallIds :
    IsSome(calls[c].sent) =>
      LET D == options.headers
          C == BuiltFrom(c).headers
          H == Get(calls[c].sent).opts.headers
      IN /\ DOMAIN D \cup DOMAIN C \subseteq DOMAIN H
         /\ DOMAIN H \subseteq DOMAIN D \cup DOMAIN C \cup {"Content-Type"}
         /\ \A key \in DOMAIN C :
              (key # "Content-Type" \/ C[key] # "") => H[key] = C[key]
         /\ \A key \in DOMAIN D \ DOMAIN C : H[key] = D[key]

\* the client's default X: "0" was overridden by the call's X: "1", the
\* default D: "d" was kept
C18_Witness ==
  /\ IsSome(calls["c1"].sent)
  /\ options.headers = [X |-> "0", D |-> "d"]
  /\ BuiltFrom("c1").headers = [X |-> "1"]
  /\ Get(calls["c1"].sent).opts.headers = [X |-> "1", D |-> "d"]

\* header names are case-insensitive: the spellings of Content-Type
ContentTypeNames == {"Content-Type", "content-type"}
ContentTypeKeys(headers) == DOMAIN headers \cap ContentTypeNames

\* a structured payload: a plain object, neither form data nor binary
IsStructured(data) == data.t = "object" /\ data.cls = "Object"

(***************************************************************************)
(* C19 (as stated): for a structured payload the body dispatched is its    *)
(* JSON serialisation, and the headers dispatched have Content-Type:       *)
(* application/json unless a Content-Type header was supplied, in which    *)
(* case the supplied value is kept and no second content-type header is    *)
(* added.                                                                  *)
(***************************************************************************)
C19_Original ==
  \A c \in CallIds :
    (IsSome(calls[c].sent) /\ IsStructured(BuiltFrom(c).data)) =>
      LET supplied == Spread(options.headers, BuiltFrom(c).headers)
          H == Get(calls[c].sent).opts.headers
      IN /\ Get(calls[c].sent).opts.body = TextBody(JsonStringify(BuiltFrom(c).data))
         /\ IF ContentTypeKeys(supplied) = {}
            THEN /\ ContentTypeKeys(H) = {"Content-Type"}
                 /\ H["Content-Type"] = DEFAULT_CONTENT_TYPE
            ELSE /\ ContentTypeKeys(H) = ContentTypeKeys(supplied)
                 /\ \A key \in ContentTypeKeys(H) : H[key] = supplied[key]

\* a payload that is given and is not a structured value: binary, form
\* data or text
IsUnstructured(data) == ~IsFalsy(data) /\ ~IsStructured(data)

(***************************************************************************)
(* C20 (as stated): a payload that is not a structured value (a raw        *)
(* buffer, a stream, a multipart form payload) is dispatched as it is, not *)
(* JSON-serialised, and no Content-Type header is added for it.            *)
(***************************************************************************)
C20_Original ==
  \A c \in CallIds :
    (IsSome(calls[c].sent) /\ IsUnstructured(BuiltFrom(c).data)) =>
      /\ Get(calls[c].sent).opts.body = RawBody(BuiltFrom(c).data)
      /\ Get(calls[c].sent).opts.headers =
           Spread(options.headers, BuiltFrom(c).headers)

\* the response type a descriptor declares, json when it declares none
DeclaredType(d) == IF IsSome(d.responseType) THEN Get(d.responseType) ELSE "json"

(***************************************************************************)
(* C21: the data of a successful call is determined by the declared        *)
(* response type: json gives the body parsed as JSON, text the body read   *)
(* as text, arraybuffer its raw bytes, and a call succeeds with these only *)
(* if the body could be read (and, for json, parsed); stream gives the     *)
(* transport's body object itself, with no read operation, so that it      *)
(* cannot fail on the body; with no declared type the body is decoded as   *)
(* json.                                                                   *)
(***************************************************************************)
C21_DecodedByType ==
  \A c \in CallIds : \A j \in Pos(c, "decode", "call") :
    LET type == DeclaredType(BuiltFrom(c))
        body == Get(calls[c].response).body
    IN /\ type \in {"json", "text", "arraybuffer", "stream"} =>
            \A h \in Pos(c, "decode", "return") :
              LogOf(c)[h].val = Some([form |-> type, of |-> body.raw])
       /\ type \in {"json", "text", "arraybuffer"} =>
            (Pos(c, "decode", "return") # {} => ~body.fails)
       /\ type = "json" => (Pos(c, "decode", "return") # {} => body.valid)
       /\ type = "stream" => Pos(c, "decode", "throw") = {}
       /\ calls[c].pc = "complete" =>
            /\ Pos(c, "decode", "return") # {}
            /\ Get(calls[c].value).data =
                 Get(LogOf(c)[Max(Pos(c, "decode", "return"))].val)

\* a call that declared stream completed with the body object of a
\* response whose body cannot be read
C21_Witness ==
  /\ calls["c1"].pc = "complete"
  /\ BuiltFrom("c1").responseType = Some("stream")
  /\ Get(calls["c1"].response).body.fails
  /\ Get(calls["c1"].value).data = [form |-> "stream", of |-> "r3"]

\* the reason phrase that goes with a status code on the wire
ReasonPhrase(s) ==
  CASE s = 200 -> "OK" [] s = 201 -> "Created" [] s = 204 -> "No Content"
    [] s = 404 -> "Not Found" [] OTHER -> "Internal Server Error"

(***************************************************************************)
(* C22: the envelope's status is the status code the transport returned;   *)
(* its statusText is "OK" for 200 and "Error" for every other code, other  *)
(* 2xx codes included, never the reason phrase of the code.                *)
(***************************************************************************)
C22_StatusText ==
  \A c \in CallIds :
    calls[c].pc = "complete" =>
      LET s == Get(calls[c].response).statusCode
          envelope == Get(calls[c].value)
      IN /\ envelope.status = s
         /\ envelope.statusText = (IF s = 200 THEN "OK" ELSE "Error")
         /\ s # 200 => envelope.statusText # ReasonPhrase(s)

\* a call completed on a 201 response with the statusText "Error"
C22_Witness ==
  /\ calls["c1"].pc = "complete"
  /\ Get(calls["c1"].response).statusCode = 201
  /\ Get(calls["c1"].value).statusText = "Error"

\* the HTTP method of a verb operation of the facade
MethodOf(verb) ==
  CASE verb = "get" -> "GET" [] verb = "post" -> "POST" [] verb = "put" -> "PUT"
    [] verb = "delete" -> "DELETE" [] verb = "patch" -> "PATCH" [] OTHER -> "HEAD"

(***************************************************************************)
(* C23: a call started by a verb operation is the call that request()      *)
(* starts on the descriptor made of the per-call config with the verb's    *)
(* method and the given URL, whatever url and method the config carries;   *)
(* for post, put and patch the descriptor's payload is the data argument   *)
(* (also when the config carries a data field), for get, delete and head   *)
(* it is the config's; the dispatch carries the verb's method and the URL  *)
(* built from the given one.  A call started by request() on a descriptor  *)
(* without a method is dispatched with GET.                                *)
(***************************************************************************)
C23_Verbs ==
  \A c \in CallIds :
    /\ IsSome(calls[c].via) =>
         LET v == Get(calls[c].via)
             cfg == SpreadConfig(v.config)
             carried == IF v.verb \in {"post", "put", "patch"} THEN v.data ELSE cfg.data
             d == [url |-> Some(v.url), method |-> Some(MethodOf(v.verb)),
                   headers |-> cfg.headers, params |-> cfg.params, data |-> carried,
                   timeout |-> cfg.timeout, responseType |-> cfg.responseType]
         IN /\ calls[c].config = Some(d)
            /\ [calls[c] EXCEPT !.via = None] = executeRequest(IdleCall, d)
            /\ IsSome(calls[c].sent) =>
                 /\ Get(calls[c].sent).opts.method = MethodOf(v.verb)
                 /\ Get(calls[c].sent).url = buildUrl(options, d)
                 /\ Get(calls[c].sent).opts.body =
                      prepareRequestBody(d, mergeHeaders(options, d)).body
    /\ (calls[c].via = None /\ IsSome(calls[c].sent)
          /\ Get(calls[c].config).method = None) =>
         Get(calls[c].sent).opts.method = "GET"

\* post was invoked with a config that carries its own url, method and
\* data, and was dispatched as POST to the given URL with the data argument
C23_Witness ==
  /\ IsSome(calls["c1"].via)
  /\ Get(calls["c1"].via).verb = "post"
  /\ Get(calls["c1"].via).config = Some(DescB)
  /\ Get(calls["c1"].via).url = <<"/", "u">>
  /\ Get(calls["c1"].via).data = PlainObject(<< << <<"n">>, NumVal(2) >> >>)
  /\ IsSome(calls["c1"].sent)
  /\ Get(calls["c1"].sent).opts.method = "POST"
  /\ Get(calls["c1"].sent).url =
       buildUrl(options, [DescB EXCEPT !.url = Some(<<"/", "u">>)])
  /\ Get(calls["c1"].sent).url # buildUrl(options, DescB)
  /\ Get(calls["c1"].sent).opts.body.text =
       JsonStringify(PlainObject(<< << <<"n">>, NumVal(2) >> >>))

(***************************************************************************)
(* C24: a client has one agent for its whole lifetime: the agent supplied  *)
(* in the configuration, itself, when there is one (and then the client    *)
(* constructs none), otherwise the one agent the constructor constructed;  *)
(* every dispatch of every call goes through this agent, and no step       *)
(* constructs an agent or replaces the client's.                           *)
(***************************************************************************)
C24_TheAgent ==
  /\ IF IsSome(options.agent)
     THEN agent = Get(options.agent) /\ pool.constructed = 0
     ELSE agent.id = "constructed" /\ pool.constructed = 1
  /\ \A c \in CallIds :
       \A j \in Pos(c, "dispatch", "call") :
         Get(LogOf(c)[j].val).opts.dispatcher = agent

C24_Kept == agent' = agent /\ pool'.constructed = pool.constructed

C24_OneAgent == []C24_TheAgent /\ [][C24_Kept]_vars

\* two calls were dispatched through the agent the caller supplied
C24_Witness ==
  /\ IsSome(options.agent)
  /\ agent.id = "supplied"
  /\ \A c \in CallIds :
       /\ calls[c].pc = "complete"
       /\ Get(calls[c].sent).opts.dispatcher = SuppliedAgent

\* the default of each pool parameter in the table of configuration options
DocumentedDefault(q) ==
  CASE q = "connections" -> 10 [] q = "pipelining" -> 10
    [] q = "keepAliveTimeout" -> 4000 [] q = "keepAliveMaxTimeout" -> 600000
    [] q = "connectTimeout" -> 10000 [] q = "bodyTimeout" -> 30000
    [] OTHER -> 30000

(***************************************************************************)
(* C25 (as stated): when the client constructs its own agent, each pool    *)
(* parameter the configuration specifies is applied with the specified     *)
(* value, and each parameter it leaves unspecified takes its documented    *)
(* default.                                                                *)
(***************************************************************************)
C25_Original ==
  ~IsSome(options.agent) =>
    \A q \in PoolParams :
      agent[q] = IF IsSome(options[q]) THEN Get(options[q]) ELSE DocumentedDefault(q)

\* C25 for the parameters the configuration leaves unspecified or specifies
\* with a value other than 0
C25_NonZero ==
  ~IsSome(options.agent) =>
    \A q \in PoolParams :
      options[q] # Some(0) =>
        agent[q] = IF IsSome(options[q]) THEN Get(options[q]) ELSE DocumentedDefault(q)

(***************************************************************************)
(* C26: getPoolStats returns the value the stats of the client's agent     *)
(* have at that moment and changes nothing; close invokes the close        *)
(* operation of the agent, once, and its promise is settled only after,    *)
(* and as, the promise of that operation.                                  *)
(***************************************************************************)
C26_CloseFollows ==
  /\ pool.close = "none" <=> pool.closeCalls = 0
  /\ pool.close = "pending" => pool.agentClose # "none"
  /\ pool.close \in {"fulfilled", "rejected"} => pool.agentClose = pool.close

C26_Step ==
  /\ Len(pool'.read) > Len(pool.read) =>
       /\ pool'.read = Append(pool.read, pool.stats)
       /\ [pool' EXCEPT !.read = pool.read] = pool
       /\ UNCHANGED <<options, agent, requestInterceptors, responseInterceptors,
                                container, calls>>
  /\ (pool'.close = "pending" /\ pool.close # "pending") =>
       /\ pool'.closeCalls = pool.closeCalls + 1
       /\ pool'.agentClose = "pending"
  /\ pool'.closeCalls # pool.closeCalls => pool'.close = "pending"

C26_PoolOperations == []C26_CloseFollows /\ [][C26_Step]_vars

\* getPoolStats returned the stats after they changed, and a close() was
\* fulfilled after the agent's close was
C26_Witness ==
  /\ pool.read = <<1>>
  /\ pool.closeCalls = 1
  /\ pool.agentClose = "fulfilled"
  /\ pool.close = "fulfilled"

(***************************************************************************)
(* C27: after construction no operation, successful or failed, changes     *)
(* the client's configuration: the base URL, the default headers, the      *)
(* default timeout and the two interceptor lists are at every moment what  *)
(* they were at construction; adding Content-Type for a JSON body does not *)
(* write into the default headers.                                         *)
(***************************************************************************)
C27_AsConstructed ==
  /\ options = OptionsOf(requestInterceptors, responseInterceptors)
  /\ requestInterceptors = <<[onRequest |-> TRUE, onError |-> TRUE]>>
  /\ responseInterceptors = <<[onResponse |-> TRUE, onError |-> TRUE]>>
  /\ "Content-Type" \notin DOMAIN options.headers

C27_Kept == UNCHANGED <<options, requestInterceptors, responseInterceptors>>

C27_ReadOnly == []C27_AsConstructed /\ [][C27_Kept]_vars

\* one call completed after a dispatch that got Content-Type added for its
\* JSON body, the other call failed
C27_Witness ==
  /\ calls["c1"].pc = "complete"
  /\ "Content-Type" \in DOMAIN Get(calls["c1"].sent).opts.headers
  /\ calls["c2"].pc = "failed"
  /\ "Content-Type" \notin DOMAIN options.headers

\* the envelope the executor built from the decoded response
C28_Decoded(c) ==
  createHttpResponse(Get(calls[c].response),
                     Get(LogOf(c)[Max(Pos(c, "decode", "return"))].val))

(***************************************************************************)
(* C28: a hook is invoked only on an interceptor that has it; an           *)
(* interceptor without the hook leaves the value of the chain as it is:    *)
(* each onRequest (onResponse) hook gets the value the previous invoked    *)
(* hook returned, the dispatch is built from, and the call completes with, *)
(* the value the last invoked hook returned; the error notification goes   *)
(* on past interceptors without onError; and a call fails only with an     *)
(* error that some operation threw.                                        *)
(***************************************************************************)
C28_AbsentSkipped ==
  \A c \in CallIds :
    /\ \A j \in Pos(c, "onRequest", "call") :
         /\ requestInterceptors[LogOf(c)[j].k].onRequest
         /\ LET before == {r \in Pos(c, "onRequest", "return") : r < j}
            IN LogOf(c)[j].val =
                 (IF before = {} THEN calls[c].config ELSE LogOf(c)[Max(before)].val)
    /\ \A j \in Pos(c, "onResponse", "call") :
         /\ responseInterceptors[LogOf(c)[j].k].onResponse
         /\ LET before == {r \in Pos(c, "onResponse", "return") : r < j}
            IN LogOf(c)[j].val =
                 (IF before = {} THEN Some(C28_Decoded(c))
                  ELSE LogOf(c)[Max(before)].val)
    /\ \A j \in Pos(c, "onError", "call") :
         IF LogOf(c)[j].list = "request"
         THEN requestInterceptors[LogOf(c)[j].k].onError
         ELSE responseInterceptors[LogOf(c)[j].k].onError
    /\ IsSome(calls[c].sent) => C1_DispatchedFrom(c, Get(LastRequestValue(c)))
    /\ calls[c].pc = "complete" =>
         calls[c].value =
           (IF Pos(c, "onResponse", "return") = {} THEN Some(C28_Decoded(c))
            ELSE LogOf(c)[Max(Pos(c, "onResponse", "return"))].val)
    /\ calls[c].pc = "failed" =>
         \E j \in Throws(c) : calls[c].thrown = LogOf(c)[j].val
    /\ (calls[c].pc = "failed" /\ Pos(c, "dispatch", "throw") # {}
          /\ HookThrows(c) = {}) =>
         AllInvoked(c, ErrCalls(c, "response"), responseInterceptors, "onError")

\* the first request interceptor has no onRequest and the first response
\* interceptor no onError: the second ones got the call's descriptor and the
\* transport error, and the call failed with the transport error
C28_Witness ==
  /\ ~requestInterceptors[1].onRequest /\ requestInterceptors[2].onRequest
  /\ ~responseInterceptors[1].onError /\ responseInterceptors[2].onError
  /\ calls["c1"].pc = "failed"
  /\ \E j \in Pos("c1", "onRequest", "call") :
       LogOf("c1")[j].k = 2 /\ LogOf("c1")[j].val = calls["c1"].config
  /\ \E j \in Pos("c1", "dispatch", "throw") :
       /\ calls["c1"].thrown = LogOf("c1")[j].val
       /\ \E h \in ErrCalls("c1", "response") :
            LogOf("c1")[h].k = 2 /\ LogOf("c1")[h].val = LogOf("c1")[j].val

(***************************************************************************)
(* C30: if an onError hook fails during the broadcast of a dispatch        *)
(* failure, the broadcast stops there: no onError hook of a response       *)
(* interceptor registered later is invoked, and the call fails with the    *)
(* error the hook raised, not with the dispatch error.                     *)
(***************************************************************************)
C30_BroadcastStops ==
  \A c \in CallIds :
    \A j \in Pos(c, "dispatch", "throw") : \A h \in HookThrows(c) :
      /\ LogOf(c)[h].list = "response"
      /\ \A g \in ErrCalls(c, "response") :
           g < h /\ LogOf(c)[g].k <= LogOf(c)[h].k
      /\ calls[c].pc = "failed"
      /\ calls[c].thrown = LogOf(c)[h].val
      /\ calls[c].thrown # LogOf(c)[j].val

\* both response interceptors have an onError hook, the dispatch failed,
\* the first hook failed, the second was never invoked
C30_Witness ==
  /\ responseInterceptors[1].onError /\ responseInterceptors[2].onError
  /\ Pos("c1", "dispatch", "throw") # {}
  /\ \E h \in HookThrows("c1") : LogOf("c1")[h].k = 1
  /\ Cardinality(ErrCalls("c1", "response")) = 1
  /\ calls["c1"].pc = "failed"
  /\ calls["c1"].thrown = Some(HookError("broadcastOnError", 1))

(***************************************************************************)
(* C29: whichever pattern configures the module - the static one, a        *)
(* factory function (with or without injected dependencies), an            *)
(* options-factory class, an options-factory instance that is already      *)
(* registered - the client is constructed with the options the pattern     *)
(* produces, so that patterns producing the same options give the same     *)
(* configuration; and the module of forRoot / forRootAsync is the module   *)
(* of register / registerAsync (same module, imports, providers, exports)  *)
(* with the global flag set.                                               *)
(***************************************************************************)
C29_SameConfiguration ==
  IsSome(container) =>
    LET w == Get(container)
        plain == DynamicModuleOf(w.pattern, w.produced, w.id, FALSE)
    IN /\ options = w.produced
       /\ w.module.exports = <<"HttpService">>
       /\ \E n \in 1..Len(w.module.providers) :
            w.module.providers[n].provide = "HttpService"
       /\ w.root =>
            /\ w.module.global = Some(TRUE)
            /\ w.module.module = plain.module
            /\ w.module.imports = plain.imports
            /\ w.module.providers = plain.providers
            /\ w.module.exports = plain.exports

\* a client of a global module configured by a factory with an injected
\* dependency completed a call with the default timeout the factory produced
C29_Witness ==
  /\ IsSome(container)
  /\ Get(container).pattern = "injectedFactory"
  /\ Get(container).root
  /\ options.timeout = Some(9)
  /\ calls["c1"].pc = "complete"
  /\ Get(calls["c1"].sent).opts.bodyTimeout = Some(9)

(***************************************************************************)
(* C37: when the payload of a call is absent or falsy (undefined, null, 0, *)
(* false, the empty string) no body is dispatched and the dispatched       *)
(* headers are the merged headers, with no Content-Type added; a           *)
(* non-empty string is dispatched as it is, not JSON-serialized, and       *)
(* again with no Content-Type added.                                       *)
(***************************************************************************)
C37_FalsyAndStrings ==
  \A c \in CallIds :
    IsSome(calls[c].sent) =>
      LET d == BuiltFrom(c)
          sent == Get(calls[c].sent)
      IN /\ d.data \in {DataUndefined, DataNull, NumberOf(0), BooleanOf(FALSE),
                         StringOf(<<>>)} =>
              /\ sent.opts.body = NoBody
              /\ sent.opts.headers = mergeHeaders(options, d)
         /\ (d.data.t = "string" /\ d.data.v # <<>>) =>
              /\ sent.opts.body = RawBody(d.data)
              /\ sent.opts.headers = mergeHeaders(options, d)

\* a call with the payload 0 and no Content-Type of its own or of the
\* client was dispatched without body and without Content-Type
C37_Witness ==
  /\ IsSome(calls["c1"].sent)
  /\ BuiltFrom("c1").data = NumberOf(0)
  /\ Get(calls["c1"].sent).opts.body = NoBody
  /\ "Content-Type" \notin DOMAIN Get(calls["c1"].sent).opts.headers

(***************************************************************************)
(* C31: on a call in which no onRequest hook, no dispatch, no decode and   *)
(* no onResponse hook has failed, no onError hook of any request or        *)
(* response interceptor is invoked.                                        *)
(***************************************************************************)
C31_NoErrorNoNotification ==
  \A c \in CallIds :
    (Pos(c, "onRequest", "throw") \cup Pos(c, "dispatch", "throw")
       \cup Pos(c, "decode", "throw") \cup Pos(c, "onResponse", "throw") = {}) =>
      Pos(c, "onError", "call") = {}

\* every interceptor has both hooks, all four onRequest / onResponse hooks
\* returned, the call completed, and no onError hook was invoked
C31_Witness ==
  /\ \A k \in 1..2 :
       /\ requestInterceptors[k].onRequest /\ requestInterceptors[k].onError
       /\ responseInterceptors[k].onResponse /\ responseInterceptors[k].onError
  /\ calls["c1"].pc = "complete"
  /\ Cardinality(Pos("c1", "onRequest", "return")) = 2
  /\ Cardinality(Pos("c1", "onResponse", "return")) = 2
  /\ Pos("c1", "onError", "call") = {}

(***************************************************************************)
(* C32: when the dispatch or the decode of a call fails, no onResponse     *)
(* hook is invoked for the call and no onError hook of a request           *)
(* interceptor: the onError hooks invoked are those of response            *)
(* interceptors, and each of them is handed that failure.                  *)
(***************************************************************************)
C32_ResponseSideOnly ==
  \A c \in CallIds :
    \A j \in Pos(c, "dispatch", "throw") \cup Pos(c, "decode", "throw") :
      /\ Pos(c, "onResponse", "call") = {}
      /\ ErrCalls(c, "request") = {}
      /\ \A h \in Pos(c, "onError", "call") :
           /\ LogOf(c)[h].list = "response"
           /\ h > j
           /\ LogOf(c)[h].val = LogOf(c)[j].val

\* the decode failed on a client whose request interceptors have onError
\* hooks and whose response interceptors have onResponse hooks: only the
\* onError hooks of the two response interceptors were invoked
C32_Witness ==
  /\ \A k \in 1..2 :
       /\ requestInterceptors[k].onError
       /\ responseInterceptors[k].onResponse /\ responseInterceptors[k].onError
  /\ Pos("c1", "decode", "throw") # {}
  /\ calls["c1"].pc = "failed"
  /\ Cardinality(ErrCalls("c1", "response")) = 2
  /\ ErrCalls("c1", "request") = {}
  /\ Pos("c1", "onResponse", "call") = {}

(***************************************************************************)
(* C35: the executor never writes to the descriptor of a call.  The        *)
(* descriptor the caller handed over stays what it was, the first          *)
(* onRequest hook is handed that descriptor, the executor's current        *)
(* descriptor is at every moment the last value an onRequest hook returned *)
(* (the caller's when none has returned), the dispatch is built from it,   *)
(* and building the URL, merging the headers and adding Content-Type       *)
(* change none of its fields.                                              *)
(***************************************************************************)
C35_Descriptor ==
  \A c \in CallIds :
    calls[c].pc # "idle" =>
      /\ calls[c].finalConfig = LastRequestValue(c)
      /\ \A j \in Pos(c, "onRequest", "call") :
           (\A h \in Pos(c, "onRequest", "call") : j <= h) =>
             LogOf(c)[j].val = calls[c].config
      /\ IsSome(calls[c].sent) => C1_DispatchedFrom(c, Get(LastRequestValue(c)))

C35_Step ==
  \A c \in CallIds :
    calls[c].pc # "idle" =>
      /\ calls'[c].config = calls[c].config
      /\ calls'[c].finalConfig # calls[c].finalConfig =>
           Pos(c, "onRequest", "return")' # Pos(c, "onRequest", "return")

\* C35: the descriptor of a call is never written by the executor: it is the
\* caller's until an onRequest hook returns another, in every state and over
\* every step
C35_NeverWritten == []C35_Descriptor /\ [][C35_Step]_vars

\* a call whose last descriptor has a JSON payload and no Content-Type was
\* dispatched with Content-Type added, and the descriptor still has none
C35_Witness ==
  /\ IsSome(calls["c1"].sent)
  /\ calls["c1"].config = Some(DescA)
  /\ calls["c1"].finalConfig = Some(DescB)
  /\ "Content-Type" \in DOMAIN Get(calls["c1"].sent).opts.headers
  /\ "Content-Type" \notin DOMAIN Get(calls["c1"].finalConfig).headers
  /\ DOMAIN Get(calls["c1"].finalConfig).headers # DOMAIN Get(calls["c1"].sent).opts.headers

\* how often the hook of interceptor k of a list was invoked in a call
C34_Invocations(c, op, list, k) ==
  Cardinality({j \in Pos(c, op, "call") :
                 LogOf(c)[j].list = list /\ LogOf(c)[j].k = k})

C34_Bounded ==
  \A c \in CallIds :
    /\ \A k \in 1..Len(requestInterceptors) :
         /\ C34_Invocations(c, "onRequest", "request", k) <= 1
         /\ C34_Invocations(c, "onError", "request", k) <= 1
    /\ \A k \in 1..Len(responseInterceptors) :
         /\ C34_Invocations(c, "onResponse", "response", k) <= 1
         /\ C34_Invocations(c, "onError", "response", k) <= 2
    /\ Cardinality(Pos(c, "dispatch", "call")) <= 1
    /\ Cardinality(Pos(c, "decode", "call")) <= 1

(***************************************************************************)
(* C34: provided every invoked hook, the dispatch and the decode each      *)
(* eventually return or fail, every call that was started eventually       *)
(* reaches Complete or Failed; each hook is invoked a bounded number of    *)
(* times per call (onRequest and onResponse at most once, onError at most  *)
(* twice), the dispatch and the decode at most once.                       *)
(***************************************************************************)
C34_Terminates ==
  /\ []C34_Bounded
  /\ \A c \in CallIds : (calls[c].pc # "idle") ~> Settled(c)

\* a call has failed after an onResponse hook failed and the onError hook
\* of its interceptor was invoked twice
C34_Witness ==
  /\ calls["c1"].pc = "failed"
  /\ Pos("c1", "onResponse", "throw") # {}
  /\ \E k \in 1..Len(responseInterceptors) :
       C34_Invocations("c1", "onError", "response", k) = 2

C36_EveryInvocation ==
  /\ pool.closeCalls = pool.closeInvoked
  /\ pool.closeInvoked < MaxClose => ENABLED Close
  /\ \A c \in CallIds :
       (calls[c].pc # "idle" /\ calls[c].closes > 0) =>
         /\ Pos(c, "onRequest", "call") # {}
         /\ \A j \in Pos(c, "dispatch", "call") :
              Get(LogOf(c)[j].val).opts.dispatcher = agent
         /\ calls[c].pc = "failed" => Pos(c, "dispatch", "throw") # {}
         /\ Pos(c, "onRequest", "return") # {} => Pos(c, "dispatch", "call") # {}

C36_Step ==
  /\ agent' = agent
  /\ pool'.closeInvoked # pool.closeInvoked =>
       /\ pool'.closeInvoked = pool.closeInvoked + 1
       /\ pool'.closeCalls = pool.closeCalls + 1
       /\ pool'.agentClose = "pending"
       /\ calls' = calls

(***************************************************************************)
(* C36: every invocation of close() calls the close of the agent, the      *)
(* caller's agent included, whatever happened before (close() is never     *)
(* refused and never skipped); a call made after close() has its onRequest *)
(* hook invoked and is dispatched to the agent of the client, and fails    *)
(* only if that dispatch fails.                                            *)
(***************************************************************************)
C36_NoClosedState == []C36_EveryInvocation /\ [][C36_Step]_vars

\* close() was invoked twice on a client with an agent of the caller, the
\* agent's close was called twice, and a call made after the first close()
\* had its onRequest hook run and was dispatched to that agent
C36_Witness ==
  /\ IsSome(options.agent)
  /\ pool.closeInvoked = 2
  /\ pool.closeCalls = 2
  /\ calls["c1"].closes >= 1
  /\ Pos("c1", "onRequest", "return") # {}
  /\ IsSome(calls["c1"].sent)
  /\ Get(calls["c1"].sent).opts.dispatcher = SuppliedAgent

C33_Outcome ==
  \A c \in CallIds :
    /\ Cardinality(Pos(c, "dispatch", "call")) = IF IsSome(calls[c].sent) THEN 1 ELSE 0
    /\ calls[c].pc = "complete" => IsSome(calls[c].value) /\ ~IsSome(calls[c].thrown)
    /\ calls[c].pc = "failed" => IsSome(calls[c].thrown) /\ ~IsSome(calls[c].value)
    /\ \A n \in 1..Len(calls[c].subs) :
         IF calls[c].subs[n].done
         THEN /\ calls[c].pc \in {"complete", "failed"}
              /\ calls[c].subs[n].next = calls[c].value
              /\ calls[c].subs[n].error = calls[c].thrown
         ELSE calls[c].subs[n] = NewSubscriber

C33_Step ==
  \A c \in CallIds :
    /\ calls'[c].subs # calls[c].subs => [calls'[c] EXCEPT !.subs = calls[c].subs] = calls[c]
    /\ calls[c].pc \in {"complete", "failed"} =>
         /\ calls'[c].pc = calls[c].pc
         /\ calls'[c].log = calls[c].log
         /\ calls'[c].value = calls[c].value
         /\ calls'[c].thrown = calls[c].thrown

====
